---- MODULE Spec2Model ----
(***************************************************************************)
(* Model of the nutrivium nutrition-tracker pipeline:                      *)
(*   AnalyzeImageNutritionUseCase.execute   (reconciliation orchestrator)  *)
(*   OpenAINutritionAnalyzerServiceImpl     (analysis requestor)           *)
(*   NutritionAnalysisRepositoryImpl        (in-memory analysis store)     *)
(*                                                                         *)
(* Numbers are fixed point with one decimal digit: the integer n stands    *)
(* for the JavaScript number n/10 (confidence 0.1 is 1, 450 kcal is 4500). *)
(***************************************************************************)
EXTENDS Integers, Sequences, FiniteSets, TLC

----------------------------------------------------------------------------
(* Bounds of the model *)

MaxPages == 3
MaxRuns == 2
MaxImages == 2
MaxFaults == 1
MaxSaves == 2

----------------------------------------------------------------------------
(* JavaScript values as they come out of JSON.parse.  Every value has the  *)
(* same three fields so that any two of them can be compared.              *)

Undef == [t |-> "undefined", n |-> 0, s |-> ""]
Null == [t |-> "null", n |-> 0, s |-> ""]
Num(k) == [t |-> "number", n |-> k, s |-> ""]
PosInf == [t |-> "infinity", n |-> 1, s |-> ""]
NegInf == [t |-> "infinity", n |-> -1, s |-> ""]
NaN == [t |-> "nan", n |-> 0, s |-> ""]
Str(x) == [t |-> "string", n |-> 0, s |-> x]
Bool(b) == [t |-> "boolean", n |-> IF b THEN 1 ELSE 0, s |-> ""]
Obj == [t |-> "object", n |-> 0, s |-> ""]

(* Number(v) *)
StringToNumber(x) ==
  CASE x = "" -> Num(0)
    [] x = "0.7" -> Num(7)
    [] x = "450" -> Num(4500)
    [] x = "Infinity" -> PosInf
    [] OTHER -> NaN

ToNumber(v) ==
  CASE v.t = "number" -> v
    [] v.t = "infinity" -> v
    [] v.t = "nan" -> v
    [] v.t = "null" -> Num(0)
    [] v.t = "boolean" -> Num(10 * v.n)
    [] v.t = "string" -> StringToNumber(v.s)
    [] OTHER -> NaN

(* Boolean(v) *)
Truthy(v) ==
  CASE v.t = "number" -> v.n # 0
    [] v.t = "infinity" -> TRUE
    [] v.t = "boolean" -> v.n = 1
    [] v.t = "string" -> v.s # ""
    [] v.t = "object" -> TRUE
    [] OTHER -> FALSE

(* a || b *)
OrElse(a, b) == IF Truthy(a) THEN a ELSE b

(* String(v) for the values the notes can take *)
StringOf(v) ==
  CASE v.t = "string" -> v.s
    [] v.t = "number" -> "<number>"
    [] v.t = "infinity" -> "Infinity"
    [] v.t = "boolean" -> IF v.n = 1 THEN "true" ELSE "false"
    [] v.t = "object" -> "[object Object]"
    [] v.t = "nan" -> "NaN"
    [] OTHER -> v.t

(* Math.max(0, Math.min(1, v)) *)
Clamp01(v) ==
  CASE v.t = "infinity" -> IF v.n = 1 THEN Num(10) ELSE Num(0)
    [] v.t = "number" -> IF v.n > 10 THEN Num(10) ELSE IF v.n < 0 THEN Num(0) ELSE v
    [] OTHER -> NaN

Portions == {"alta", "media", "baja"}
CategoryNames == {"vegetables", "fruits", "proteins", "sugars", "processedFoods"}

----------------------------------------------------------------------------
(* OpenAINutritionAnalyzerServiceImpl *)

(* What a call or an expression does: it throws, or it yields a value *)
Thrown == [kind |-> "throw"]
Returned(v) == [kind |-> "value", value |-> v]

(* categoryData.field, a read without the optional chaining *)
CatFieldPlain(categoryData, f) ==
  IF categoryData.kind \in {"undefined", "null"} THEN Thrown
  ELSE IF categoryData.kind = "object" THEN Returned(categoryData[f]) ELSE Returned(Undef)

(* categoryData?.field : categoryData is undefined, null, a primitive or an *)
(* object [kind, present, portion, confidence].  The optional chaining      *)
(* yields undefined where a plain read of undefined or null would throw.    *)
CatField(categoryData, f) ==
  IF categoryData.kind = "object" THEN Returned(categoryData[f]) ELSE Returned(Undef)

validatePortion(portion) ==
  IF portion = Str("alta") \/ portion = Str("media") \/ portion = Str("baja")
    THEN portion.s
    ELSE "baja"

ConfidenceOf(v) == Clamp01(OrElse(ToNumber(v), Num(5)))

validateCategoryInfo(categoryData) ==
  LET present == CatField(categoryData, "present")
      portion == CatField(categoryData, "portion")
      confidence == CatField(categoryData, "confidence")
  IN IF "throw" \in {present.kind, portion.kind, confidence.kind} THEN Thrown
     ELSE Returned([ present |-> Truthy(present.value),
                     portion |-> validatePortion(portion.value),
                     confidence |-> ConfidenceOf(confidence.value) ])

FallbackConfidence == 1
FallbackNotes == "No se pudo completar el analisis nutricional"

defaultCategory == [present |-> FALSE, portion |-> "baja", confidence |-> Num(FallbackConfidence)]

(* a fallback built with the default confidence of the validation *)
getFallbackAnalysisDefaults ==
  [ calories |-> [ totalCalories |-> Num(0),
                   caloriesRange |-> [min |-> Num(0), max |-> Num(0)],
                   confidence |-> Num(5) ],
    nutritionalCategories |->
      [c \in CategoryNames |-> [present |-> FALSE, portion |-> "baja", confidence |-> Num(5)]],
    analysisNotes |-> FallbackNotes ]

getFallbackAnalysis ==
  [ calories |-> [ totalCalories |-> Num(0),
                   caloriesRange |-> [min |-> Num(0), max |-> Num(0)],
                   confidence |-> Num(FallbackConfidence) ],
    nutritionalCategories |-> [c \in CategoryNames |-> defaultCategory],
    analysisNotes |-> FallbackNotes ]

(* parsedData.nutritionalCategories.<name> : a property read on a truthy   *)
(* value; only an object has the property                                  *)
CategoryData(cats, name) ==
  IF cats.kind = "object" THEN cats.fields[name]
  ELSE [kind |-> "undefined", present |-> Undef, portion |-> Undef, confidence |-> Undef]

CalField(cal, f) == IF cal.kind = "object" THEN cal[f] ELSE Undef

(* parsedData.calories.caloriesRange?.min *)
RangeField(cal, f) ==
  IF cal.kind = "object" /\ cal.caloriesRange.kind = "object" THEN cal.caloriesRange[f] ELSE Undef

(* truthiness of a top-level key that holds a structure *)
KindTruthy(x) == x.kind \in {"object", "truthy"}

(* try body of parseOpenAIResponse: what it returns, or that it throws *)
parseBody(content) ==
  IF content.kind # "json" THEN Thrown
  ELSE LET parsedData == content.data IN
    IF ~KindTruthy(parsedData.calories) \/ ~KindTruthy(parsedData.nutritionalCategories)
         \/ ~Truthy(parsedData.analysisNotes)
      THEN Thrown
      ELSE LET categories == [c \in CategoryNames |->
                 validateCategoryInfo(CategoryData(parsedData.nutritionalCategories, c))]
      IN IF \E c \in CategoryNames : categories[c].kind = "throw" THEN Thrown
      ELSE Returned(
        [ calories |->
            [ totalCalories |-> OrElse(ToNumber(CalField(parsedData.calories, "totalCalories")), Num(0)),
              caloriesRange |->
                [ min |-> OrElse(ToNumber(RangeField(parsedData.calories, "min")), Num(0)),
                  max |-> OrElse(ToNumber(RangeField(parsedData.calories, "max")), Num(0)) ],
              confidence |-> ConfidenceOf(CalField(parsedData.calories, "confidence")) ],
          nutritionalCategories |-> [c \in CategoryNames |-> categories[c].value],
          analysisNotes |-> StringOf(OrElse(parsedData.analysisNotes, Str("Analisis completado"))) ])

(* catch block of parseOpenAIResponse *)
parseCatch(outcome) ==
  IF outcome.kind = "throw" THEN Returned(getFallbackAnalysis) ELSE outcome

parseOpenAIResponse(content) == parseCatch(parseBody(content))

(* A prompt is a list of pieces: literal text, a placeholder of the         *)
(* template, a context sentence, or the statement about several images.     *)
Piece(kind, text, n) == [kind |-> kind, text |-> text, n |-> n]

(* templates/nutrition-analysis-prompt.md *)
Template ==
  << Piece("text", "Analiza esta imagen de comida", 0),
     Piece("slot", "{{timeContext}}", 0),
     Piece("slot", "{{infoContext}}", 0),
     Piece("text", "Instrucciones especificas", 0) >>

(* String.prototype.replace with a string pattern: the first occurrence of *)
(* the placeholder is replaced; the replacement '' leaves nothing           *)
replace(text, pattern, replacement) ==
  IF \E k \in 1 .. Len(text) : text[k] = Piece("slot", pattern, 0)
    THEN LET k == CHOOSE j \in 1 .. Len(text) :
                    /\ text[j] = Piece("slot", pattern, 0)
                    /\ \A i \in 1 .. j - 1 : text[i] # Piece("slot", pattern, 0)
         IN SubSeq(text, 1, k - 1) \o replacement \o SubSeq(text, k + 1, Len(text))
    ELSE text

(* TemplateService.getNutritionAnalysisPrompt; template is the entry of the *)
(* map templates, which !template finds missing (the empty list here) when  *)
(* loadTemplates failed                                                     *)
getNutritionAnalysisPrompt(template, timeContext, infoContext) ==
  IF template = << >> THEN Thrown
  ELSE Returned(replace(replace(template, "{{timeContext}}", timeContext),
                        "{{infoContext}}", infoContext))

multipleImagesPrefix(imageCount) == << Piece("multipleImages", "IMPORTANTE", imageCount) >>

(* TemplateService.getMultipleImagesNutritionAnalysisPrompt *)
getMultipleImagesNutritionAnalysisPrompt(template, imageCount, timeContext, infoContext) ==
  IF template = << >> THEN Thrown
  ELSE Returned(replace(replace(multipleImagesPrefix(imageCount) \o template,
                                "{{timeContext}}", timeContext),
                        "{{infoContext}}", infoContext))

(* lines 50-56: the two context sentences, '' when there is nothing to say *)
timeContext(extractedDateTime) ==
  IF extractedDateTime.t = "null" THEN << >>
  ELSE << Piece("timeContext", "Las imagenes fueron tomadas el", extractedDateTime.ms) >>

infoContext(additionalInfo) ==
  IF additionalInfo = "" THEN << >>
  ELSE << Piece("infoContext", additionalInfo, 0) >>

(* a prompt that never carries the statement about several images *)
promptSingle(nImages, extractedDateTime, additionalInfo, template) ==
  getNutritionAnalysisPrompt(template, timeContext(extractedDateTime), infoContext(additionalInfo))

(* lines 59-61: the prompt for a bundle of nImages images *)
prompt(nImages, extractedDateTime, additionalInfo, template) ==
  IF nImages > 1
    THEN getMultipleImagesNutritionAnalysisPrompt(template, nImages, timeContext(extractedDateTime),
                                                  infoContext(additionalInfo))
    ELSE getNutritionAnalysisPrompt(template, timeContext(extractedDateTime),
                                    infoContext(additionalInfo))

(* The requests analyzeImagesNutrition sends to the model for a bundle of  *)
(* nImages images: none when building the prompt or the response format    *)
(* throws, else one request carrying every image.                           *)
modelRequests(nImages, env) ==
  IF ~env.templateLoaded THEN << >>
  ELSE << [images |-> nImages, multiplePrompt |-> (nImages > 1)] >>

(* try body of analyzeImagesNutrition.  env is what the collaborators do:  *)
(* whether the templates were loaded, and what the model call yields.       *)
analyzeBody(nImages, env) ==
  IF ~env.templateLoaded THEN Thrown
  ELSE IF env.response.kind \in {"throw", "empty"} THEN Thrown
  ELSE parseOpenAIResponse(env.response)

(* a catch block that logs and rethrows *)
analyzeCatchRethrow(outcome) == outcome

(* catch block of analyzeImagesNutrition *)
analyzeCatch(outcome) ==
  IF outcome.kind = "throw" THEN Returned(getFallbackAnalysis) ELSE outcome

analyzeImagesNutrition(nImages, env) == analyzeCatch(analyzeBody(nImages, env))

----------------------------------------------------------------------------
(* NutritionAnalysisRepositoryImpl: the in-memory store *)

VARIABLES inMemoryStore, pageIdIndex

NullDate == [t |-> "null", ms |-> 0]
DateOf(ms) == [t |-> "date", ms |-> ms]

(* a Date whose time value is NaN: toISOString throws a RangeError on it *)
InvalidDate == [t |-> "invalid", ms |-> 0]

(* Date.prototype.toISOString and new Date(isoString) *)
toISOString(d) == [t |-> "iso", ms |-> d.ms]
newDate(iso) == [t |-> "date", ms |-> iso.ms]

(* JSON.stringify writes a number that is not finite as null *)
JsonNumber(v) == IF v.t \in {"infinity", "nan"} THEN Null ELSE v

JsonStringifyCalories(c) ==
  [ t |-> "json",
    v |-> [ totalCalories |-> JsonNumber(c.totalCalories),
            caloriesRange |-> [ min |-> JsonNumber(c.caloriesRange.min),
                                max |-> JsonNumber(c.caloriesRange.max) ],
            confidence |-> JsonNumber(c.confidence) ] ]

JsonStringifyCategories(cs) ==
  [ t |-> "json",
    v |-> [ c \in DOMAIN cs |-> [ present |-> cs[c].present,
                                  portion |-> cs[c].portion,
                                  confidence |-> JsonNumber(cs[c].confidence) ] ] ]

JsonParse(text) == text.v

(* the record save builds from the entity *)
toRecord(analysis) ==
  [ id |-> analysis.id,
    imageUrl |-> analysis.imageUrl,
    extractedDateTime |-> IF analysis.extractedDateTime.t = "null" THEN NullDate
                          ELSE toISOString(analysis.extractedDateTime),
    calories |-> JsonStringifyCalories(analysis.calories),
    nutritionalCategories |-> JsonStringifyCategories(analysis.nutritionalCategories),
    analysisNotes |-> analysis.analysisNotes,
    notionPageId |-> analysis.notionPageId,
    createdAt |-> toISOString(analysis.createdAt),
    updatedAt |-> toISOString(analysis.updatedAt),
    mapPosition |-> 0 ]

mapToEntity(record) ==
  [ id |-> record.id,
    createdAt |-> newDate(record.createdAt),
    updatedAt |-> newDate(record.updatedAt),
    imageUrl |-> record.imageUrl,
    extractedDateTime |-> IF record.extractedDateTime.t = "null" THEN NullDate
                          ELSE newDate(record.extractedDateTime),
    calories |-> JsonParse(record.calories),
    nutritionalCategories |-> JsonParse(record.nutritionalCategories),
    analysisNotes |-> record.analysisNotes,
    notionPageId |-> record.notionPageId ]

(* Map.set *)
MapSet(map, key, value) ==
  [k \in (DOMAIN map) \cup {key} |-> IF k = key THEN value ELSE map[k]]

(* The place of a key in the insertion order of inMemoryStore, which the   *)
(* model keeps in the field mapPosition of the value: a key that is set    *)
(* again keeps its place, a new key goes last.                              *)
MapPosition(store, key) ==
  IF key \in DOMAIN store THEN store[key].mapPosition ELSE Cardinality(DOMAIN store) + 1

(* inMemoryStore.values(): the records in insertion order *)
MapValues(store) ==
  [k \in 1 .. Cardinality(DOMAIN store) |->
     store[CHOOSE id \in DOMAIN store : store[id].mapPosition = k]]

NoPage == 0

(* the two maps after save(analysis) *)
saveStore(store, analysis) ==
  MapSet(store, analysis.id,
         [toRecord(analysis) EXCEPT !.mapPosition = MapPosition(store, analysis.id)])

(* save without the update of the index *)
saveIndexNone(index, analysis) == index

(* an index that keeps the first result saved for a page *)
saveIndexFirst(index, analysis) ==
  IF analysis.notionPageId # NoPage /\ analysis.notionPageId \notin DOMAIN index
    THEN MapSet(index, analysis.notionPageId, analysis.id)
    ELSE index

saveIndex(index, analysis) ==
  IF analysis.notionPageId # NoPage
    THEN MapSet(index, analysis.notionPageId, analysis.id)
    ELSE index

findById(id) ==
  IF id \notin DOMAIN inMemoryStore THEN Null ELSE mapToEntity(inMemoryStore[id])

(* a lookup that reports every id as not found *)
findByNotionPageIdMiss(notionPageId) == Null

findByNotionPageId(notionPageId) ==
  IF notionPageId \notin DOMAIN pageIdIndex THEN Null
  ELSE findById(pageIdIndex[notionPageId])

(* the stored records whose notionPageId is pageId *)
StoredFor(page) == {id \in DOMAIN inMemoryStore : inMemoryStore[id].notionPageId = page}

(* try body of save: building the record throws when toISOString is called *)
(* on an invalid date, before the maps are written                          *)
saveBody(analysis) ==
  IF "invalid" \in {analysis.extractedDateTime.t, analysis.createdAt.t, analysis.updatedAt.t}
    THEN Thrown
    ELSE Returned(analysis)

(* catch block of save: log and rethrow *)
saveCatch(outcome) == outcome

save(analysis) == saveCatch(saveBody(analysis))

(* the creation time, whether or not the record has a capture time *)
recordDateCreated(record) == newDate(record.createdAt)

(* the date findByDateRange compares: the capture time, else the creation time *)
recordDate(record) ==
  IF record.extractedDateTime.t # "null" THEN newDate(record.extractedDateTime)
  ELSE newDate(record.createdAt)

(* recordDate >= startDate && recordDate <= endDate *)
InRange(d, startDate, endDate) ==
  /\ "invalid" \notin {d.t, startDate.t, endDate.t}
  /\ d.ms >= startDate.ms
  /\ d.ms <= endDate.ms

(* the entities of a list of records; mapToEntity yields null, and the     *)
(* record is left out, only when its JSON texts do not parse               *)
RECURSIVE entitiesOf(_)
entitiesOf(records) ==
  IF records = << >> THEN << >>
  ELSE (IF mapToEntity(Head(records)) # Null THEN << mapToEntity(Head(records)) >> ELSE << >>)
         \o entitiesOf(Tail(records))

(* try body of findByDateRange: the debug log formats both bounds first *)
findByDateRangeBody(startDate, endDate) ==
  IF "invalid" \in {startDate.t, endDate.t} THEN Thrown
  ELSE LET Matches(record) == InRange(recordDate(record), startDate, endDate)
       IN Returned(entitiesOf(SelectSeq(MapValues(inMemoryStore), Matches)))

(* catch block of findByDateRange: the error log formats both bounds again *)
(* and then the empty list is returned                                      *)
findByDateRangeCatch(outcome, startDate, endDate) ==
  IF outcome.kind = "value" THEN outcome
  ELSE IF "invalid" \in {startDate.t, endDate.t} THEN Thrown
  ELSE Returned(<< >>)

findByDateRange(startDate, endDate) ==
  findByDateRangeCatch(findByDateRangeBody(startDate, endDate), startDate, endDate)

(* Array.prototype.sort with (a, b) => b.createdAt - a.createdAt: newest   *)
(* first, records of the same time in their earlier order                   *)
RECURSIVE sortNewestFirst(_)
sortNewestFirst(records) ==
  IF records = << >> THEN << >>
  ELSE LET sorted == sortNewestFirst(SubSeq(records, 1, Len(records) - 1))
           last == records[Len(records)]
           k == Cardinality({j \in 1 .. Len(sorted) : sorted[j].createdAt.ms >= last.createdAt.ms})
       IN SubSeq(sorted, 1, k) \o << last >> \o SubSeq(sorted, k + 1, Len(sorted))

(* Array.prototype.slice(offset, offset + limit) for offset, limit >= 0 *)
slice(list, offset, limit) ==
  SubSeq(list, offset + 1, IF offset + limit < Len(list) THEN offset + limit ELSE Len(list))

(* findAll: nothing in its try body throws *)
findAll(offset, limit) ==
  Returned(entitiesOf(slice(sortNewestFirst(MapValues(inMemoryStore)), offset, limit)))

----------------------------------------------------------------------------
(* The collaborators of the use case *)

Pages == 1 .. MaxPages

(* a model response: the call throws, has no content, has no JSON object   *)
(* in it, has one that does not parse, or has the parsed object data        *)
CatObject(p, q, c) == [kind |-> "object", present |-> p, portion |-> q, confidence |-> c]
CatPrimitive(k) == [kind |-> k, present |-> Undef, portion |-> Undef, confidence |-> Undef]
CatsObject(f) == [kind |-> "object", fields |-> f]
CatsPrimitive(k) == [kind |-> k, fields |-> << >>]
RangeObject(lo, hi) == [kind |-> "object", min |-> lo, max |-> hi]
RangePrimitive(k) == [kind |-> k, min |-> Undef, max |-> Undef]
CalObject(total, range, c) ==
  [kind |-> "object", totalCalories |-> total, caloriesRange |-> range, confidence |-> c]
CalPrimitive(k) ==
  [kind |-> k, totalCalories |-> Undef, caloriesRange |-> RangePrimitive("undefined"), confidence |-> Undef]
JsonResponse(cal, cats, notes) ==
  [kind |-> "json", data |-> [calories |-> cal, nutritionalCategories |-> cats, analysisNotes |-> notes]]
FailedResponse(k) == [kind |-> k]

AbsentCategory == CatObject(Bool(FALSE), Str("baja"), Num(9))

(* a meal of 450 kcal with a large portion of vegetables *)
NormalResponse ==
  JsonResponse(CalObject(Num(4500), RangeObject(Num(4000), Num(5000)), Num(8)),
               CatsObject([c \in CategoryNames |->
                  IF c = "vegetables" THEN CatObject(Bool(TRUE), Str("alta"), Num(9))
                  ELSE AbsentCategory]),
               Str("Plato equilibrado"))

(* the same meal with a calorie total too large for a double (1e999) *)
HugeResponse ==
  JsonResponse(CalObject(PosInf, RangeObject(Num(4000), PosInf), Num(8)),
               CatsObject([c \in CategoryNames |->
                  IF c = "proteins" THEN CatObject(Bool(TRUE), Str("media"), Num(7))
                  ELSE AbsentCategory]),
               Str("Plato abundante"))

(* what the model answers during a run of the use case *)
RunResponses == {NormalResponse, HugeResponse, FailedResponse("throw")}

ImageUrl(page, k) == [page |-> page, image |-> k]
CaptureTime == DateOf(5)

Bundle(page, n, capturedAt) ==
  [ images |-> [k \in 1 .. n |-> [imageUrl |-> ImageUrl(page, k)]],
    extractedDateTime |-> capturedAt,
    additionalInfo |-> "" ]

(* The records of the database: every record has a fixed set of photos,    *)
(* and the photos of every record but the first carry a capture time.       *)
PagePhotos(page) == 1 + (page % MaxImages)
CapturedAt(page) == IF page >= 2 THEN CaptureTime ELSE NullDate

(* getAllImagesFromPage(pageId): throws, or returns null (no image found),  *)
(* or a bundle, which is empty when no photo could be fetched               *)
getAllImagesFromPage(page) ==
  {Thrown, Returned(Null)}
    \cup {Returned(Bundle(page, n, CapturedAt(page))) : n \in {0, PagePhotos(page)}}

(* the ids of S in database order *)
RECURSIVE InOrder(_)
InOrder(S) ==
  IF S = {} THEN << >>
  ELSE LET first == CHOOSE x \in S : \A y \in S : x <= y
       IN <<first>> \o InOrder(S \ {first})

(* getPendingPageIds(databaseId, limit): throws, or returns at most limit ids *)
getPendingPageIds(limit) ==
  {Thrown} \cup {Returned(InOrder(S)) : S \in {T \in SUBSET Pages : Cardinality(T) <= limit}}

----------------------------------------------------------------------------
(* AnalyzeImageNutritionUseCase.execute *)

VARIABLES
  clock,             \* the value new Date() returns, in ticks
  templateLoaded,    \* whether TemplateService loaded the prompt template
  pc,                \* where execute is: idle, check, extract, analyze, persist, writeback, returned, thrown
  request,           \* the request of the current call
  pendingQueries,    \* the queries of the pending ids made by the current call
  pageIds,           \* the discovered ids
  idx,               \* position of the loop in pageIds
  results,           \* the list execute builds and returns
  imageData,         \* the bundle of the current record
  analysisResult,    \* what the analyzer returned for the current record
  nutritionAnalysis, \* the entity built for the current record
  runs,              \* calls of execute so far
  faults,            \* collaborator failures so far
  status,            \* per record, its state in the current call
  errAt,             \* per record, the step whose exception ended it in the current call
  modelFailed,       \* records whose model call or response parsing failed in the current call
  analyzerCalls,     \* per record, calls of analyzeImagesNutrition over all calls of execute
  analyzerCallsRun,  \* per record, calls of analyzeImagesNutrition in the current call
  requestsRun,       \* the requests sent to the model in the current call
  saveFailures,      \* per record, saves that threw over all calls of execute
  writeBackFailures, \* records whose write-back threw or returned false, over all calls of execute
  writeBacks,        \* the write-backs issued in the current call
  persisted,         \* per record, the entity whose save first succeeded
  bundles            \* per record, the bundle extracted in the current call

storeVars == <<inMemoryStore, pageIdIndex>>
localVars == <<imageData, analysisResult, nutritionAnalysis>>

TerminalStates == {"SKIP_EXISTING", "SKIP_NO_IMAGES", "SKIP_ERROR", "DONE"}

mapToDto(analysis) ==
  [ id |-> analysis.id,
    imageUrl |-> analysis.imageUrl,
    extractedDateTime |-> analysis.extractedDateTime,
    calories |-> analysis.calories,
    nutritionalCategories |-> analysis.nutritionalCategories,
    analysisNotes |-> analysis.analysisNotes,
    notionPageId |-> analysis.notionPageId,
    createdAt |-> analysis.createdAt,
    updatedAt |-> analysis.updatedAt ]

(* notes that carry the marker of a combined analysis for one image too *)
combinedNotesAlways(nImages, notes) == [combined |-> nImages, text |-> notes]

(* the notes of the entity: the analyzer's notes, behind the marker of a   *)
(* combined analysis when the bundle has more than one image                *)
combinedNotes(nImages, notes) ==
  [combined |-> IF nImages > 1 THEN nImages ELSE 0, text |-> notes]

CategoryOrder == <<"vegetables", "fruits", "proteins", "sugars", "processedFoods">>
CategoryLabel ==
  [c \in CategoryNames |->
     CASE c = "vegetables" -> "Verduras" [] c = "fruits" -> "Frutas"
       [] c = "proteins" -> "Proteinas" [] c = "sugars" -> "Azucares"
       [] OTHER -> "Procesados"]

RECURSIVE presentFrom(_, _)
presentFrom(categories, k) ==
  IF k > Len(CategoryOrder) THEN << >>
  ELSE LET c == CategoryOrder[k] IN
    (IF categories[c].present
       THEN << [label |-> CategoryLabel[c], portion |-> categories[c].portion] >>
       ELSE << >>) \o presentFrom(categories, k + 1)

(* a list that names every category, present or not *)
presentCategoriesAll(categories) ==
  [k \in 1 .. Len(CategoryOrder) |->
     [label |-> CategoryLabel[CategoryOrder[k]], portion |-> categories[CategoryOrder[k]].portion]]

presentCategories(categories) == presentFrom(categories, 1)

(* String(analysisNotes || 'Sin notas adicionales'): the notes are the      *)
(* empty string only without the marker and with an empty text              *)
writeBackNotes(notes) ==
  IF notes.combined = 0 /\ notes.text = ""
    THEN [combined |-> 0, text |-> "Sin notas adicionales"]
    ELSE notes

updateData(page, result, notes, capturedAt) ==
  [ pageId |-> page,
    calories |-> result.calories.totalCalories,
    nutrients |-> IF Len(presentCategories(result.nutritionalCategories)) > 0
                    THEN presentCategories(result.nutritionalCategories)
                    ELSE << [label |-> "Sin categorias identificadas", portion |-> ""] >>,
    analysisNotes |-> writeBackNotes(notes),
    extractedDateTime |-> capturedAt ]

(* results.unshift(dto) *)
pushResultFront(list, dto) == <<dto>> \o list

(* results.push(dto) *)
pushResult(list, dto) == Append(list, dto)

(* the record the loop is at *)
pageId == pageIds[idx]

(* a loop that ends at its first record *)
EndRecordStop(terminal) ==
  /\ status' = [status EXCEPT ![pageId] = terminal]
  /\ pc' = "returned"
  /\ idx' = idx
  /\ imageData' = Null
  /\ analysisResult' = Null
  /\ nutritionAnalysis' = Null

(* the loop goes to the next id, or ends and execute returns *)
EndRecord(terminal) ==
  /\ status' = [status EXCEPT ![pageId] = terminal]
  /\ pc' = IF idx < Len(pageIds) THEN "check" ELSE "returned"
  /\ idx' = IF idx < Len(pageIds) THEN idx + 1 ELSE idx
  /\ imageData' = Null
  /\ analysisResult' = Null
  /\ nutritionAnalysis' = Null

(* a catch of the loop body that logs and rethrows *)
CatchRecordErrorRethrow(step) ==
  /\ errAt' = [errAt EXCEPT ![pageId] = step]
  /\ results' = results
  /\ status' = [status EXCEPT ![pageId] = "SKIP_ERROR"]
  /\ pc' = "thrown"
  /\ idx' = idx
  /\ imageData' = Null
  /\ analysisResult' = Null
  /\ nutritionAnalysis' = Null

(* the catch of the loop body: log, continue with the next id *)
CatchRecordError(step) ==
  /\ errAt' = [errAt EXCEPT ![pageId] = step]
  /\ results' = results
  /\ EndRecord("SKIP_ERROR")

(* a call of execute whose loop starts at the last of the ids it discovered *)
StartRunAtLast(req, queries, ids, next) ==
  /\ runs' = runs + 1
  /\ pendingQueries' = queries
  /\ clock' = clock + 1
  /\ request' = req
  /\ pageIds' = ids
  /\ idx' = IF Len(ids) = 0 THEN 1 ELSE Len(ids)
  /\ results' = << >>
  /\ pc' = next
  /\ status' = [p \in Pages |-> IF \E k \in 1 .. Len(ids) : ids[k] = p THEN "PENDING" ELSE "NONE"]
  /\ errAt' = [p \in Pages |-> "none"]
  /\ modelFailed' = {}
  /\ analyzerCallsRun' = [p \in Pages |-> 0]
  /\ requestsRun' = << >>
  /\ writeBacks' = << >>
  /\ bundles' = [p \in Pages |-> Null]
  /\ UNCHANGED localVars

(* a call of execute starts with the ids it discovered *)
StartRun(req, queries, ids, next) ==
  /\ runs' = runs + 1
  /\ pendingQueries' = queries
  /\ clock' = clock + 1
  /\ request' = req
  /\ pageIds' = ids
  /\ idx' = 1
  /\ results' = << >>
  /\ pc' = next
  /\ status' = [p \in Pages |-> IF \E k \in 1 .. Len(ids) : ids[k] = p THEN "PENDING" ELSE "NONE"]
  /\ errAt' = [p \in Pages |-> "none"]
  /\ modelFailed' = {}
  /\ analyzerCallsRun' = [p \in Pages |-> 0]
  /\ requestsRun' = << >>
  /\ writeBacks' = << >>
  /\ bundles' = [p \in Pages |-> Null]
  /\ UNCHANGED localVars

DefaultLimit == 5
Limits == {1, DefaultLimit}

Idle == pc \in {"idle", "returned", "thrown"}

(* execute({databaseId, pageId, limit}) with an explicit page *)
ExecutePage(p) ==
  /\ Idle /\ runs < MaxRuns
  /\ StartRun([pageId |-> p, limit |-> DefaultLimit], << >>, <<p>>, "check")
  /\ UNCHANGED <<storeVars, templateLoaded, faults, analyzerCalls,
                 saveFailures, writeBackFailures, persisted>>

(* execute({databaseId, limit}): the pending ids are queried *)
ExecutePending(limit, discovered) ==
  /\ Idle /\ runs < MaxRuns
  /\ discovered \in getPendingPageIds(limit)
  /\ discovered.kind = "value"
  /\ StartRun([pageId |-> NoPage, limit |-> limit],
              << [limit |-> limit, outcome |-> discovered] >>, discovered.value,
              IF Len(discovered.value) = 0 THEN "returned" ELSE "check")
  /\ UNCHANGED <<storeVars, templateLoaded, faults, analyzerCalls,
                 saveFailures, writeBackFailures, persisted>>

(* an outer catch that logs the error of the query and returns the empty   *)
(* list                                                                     *)
ExecutePendingThrowsReturns(limit) ==
  /\ Idle /\ runs < MaxRuns /\ faults < MaxFaults
  /\ Thrown \in getPendingPageIds(limit)
  /\ StartRun([pageId |-> NoPage, limit |-> limit],
              << [limit |-> limit, outcome |-> Thrown] >>, << >>, "returned")
  /\ faults' = faults + 1
  /\ UNCHANGED <<storeVars, templateLoaded, analyzerCalls,
                 saveFailures, writeBackFailures, persisted>>

(* execute({databaseId, limit}) when the query of the pending ids throws:  *)
(* the outer catch logs and rethrows                                        *)
ExecutePendingThrows(limit) ==
  /\ Idle /\ runs < MaxRuns /\ faults < MaxFaults
  /\ Thrown \in getPendingPageIds(limit)
  /\ StartRun([pageId |-> NoPage, limit |-> limit],
              << [limit |-> limit, outcome |-> Thrown] >>, << >>, "thrown")
  /\ faults' = faults + 1
  /\ UNCHANGED <<storeVars, templateLoaded, analyzerCalls,
                 saveFailures, writeBackFailures, persisted>>

(* an existence check without the continue: the result found is pushed and *)
(* the record is processed all the same                                     *)
SkipExistingFallsThrough ==
  /\ pc = "check"
  /\ findByNotionPageId(pageId) # Null
  /\ results' = pushResult(results, mapToDto(findByNotionPageId(pageId)))
  /\ pc' = "extract"
  /\ status' = [status EXCEPT ![pageId] = "EXTRACT"]
  /\ UNCHANGED <<storeVars, clock, templateLoaded, request, pendingQueries, pageIds, idx, localVars,
                 runs, faults, errAt, modelFailed, analyzerCalls, analyzerCallsRun, requestsRun,
                 saveFailures, writeBackFailures, writeBacks, persisted, bundles>>

(* existence check: findByNotionPageId found a result, it is pushed and the *)
(* loop continues                                                           *)
SkipExisting ==
  /\ pc = "check"
  /\ findByNotionPageId(pageId) # Null
  /\ results' = pushResult(results, mapToDto(findByNotionPageId(pageId)))
  /\ EndRecord("SKIP_EXISTING")
  /\ UNCHANGED <<storeVars, clock, templateLoaded, request, pendingQueries, pageIds, runs, faults,
                 errAt, modelFailed, analyzerCalls, analyzerCallsRun, requestsRun,
                 saveFailures, writeBackFailures, writeBacks, persisted, bundles>>

(* existence check: no result, the images of the record are fetched next *)
CheckExisting ==
  /\ pc = "check"
  /\ findByNotionPageId(pageId) = Null
  /\ pc' = "extract"
  /\ status' = [status EXCEPT ![pageId] = "EXTRACT"]
  /\ UNCHANGED <<storeVars, clock, templateLoaded, request, pendingQueries, pageIds, idx, results,
                 localVars, runs, faults, errAt, modelFailed, analyzerCalls, analyzerCallsRun,
                 requestsRun, saveFailures, writeBackFailures, writeBacks, persisted, bundles>>

(* getAllImagesFromPage throws *)
ExtractThrows ==
  /\ pc = "extract" /\ faults < MaxFaults
  /\ Thrown \in getAllImagesFromPage(pageId)
  /\ faults' = faults + 1
  /\ CatchRecordError("EXTRACT")
  /\ UNCHANGED <<storeVars, clock, templateLoaded, request, pendingQueries, pageIds, runs,
                 modelFailed, analyzerCalls, analyzerCallsRun, requestsRun,
                 saveFailures, writeBackFailures, writeBacks, persisted, bundles>>

(* getAllImagesFromPage returns null or a bundle *)
Extract(extracted) ==
  /\ pc = "extract"
  /\ extracted \in getAllImagesFromPage(pageId)
  /\ extracted.kind = "value"
  /\ IF extracted.value = Null \/ Len(extracted.value.images) = 0
       THEN /\ results' = results
            /\ EndRecord("SKIP_NO_IMAGES")
            /\ UNCHANGED bundles
       ELSE /\ imageData' = extracted.value
            /\ bundles' = [bundles EXCEPT ![pageId] = extracted.value]
            /\ pc' = "analyze"
            /\ status' = [status EXCEPT ![pageId] = "ANALYZE"]
            /\ UNCHANGED <<idx, results, analysisResult, nutritionAnalysis>>
  /\ UNCHANGED <<storeVars, clock, templateLoaded, request, pendingQueries, pageIds, runs, faults,
                 errAt, modelFailed, analyzerCalls, analyzerCallsRun, requestsRun,
                 saveFailures, writeBackFailures, writeBacks, persisted>>

(* uuidv4(): an id no other call returns; the call is named by the record  *)
(* it is made for and the number of analyses of that record before it      *)
uuidv4(page, earlier) == [page |-> page, n |-> earlier]

(* the entity execute builds from the bundle and the analyzer's result *)
newAnalysis(id, now, data, result, page) ==
  [ id |-> id,
    createdAt |-> now,
    updatedAt |-> now,
    imageUrl |-> data.images[1].imageUrl,
    extractedDateTime |-> data.extractedDateTime,
    calories |-> result.calories,
    nutritionalCategories |-> result.nutritionalCategories,
    analysisNotes |-> combinedNotes(Len(data.images), result.analysisNotes),
    notionPageId |-> page ]

(* one call of analyzeImagesNutrition per image *)
analyzerCallsPerImage(data) == [k \in 1 .. Len(data.images) |-> 1]

(* the calls of analyzeImagesNutrition execute makes for one bundle: the   *)
(* image counts it passes, one call with all the images                     *)
analyzerCallsFor(data) == << Len(data.images) >>

RECURSIVE requestsOf(_, _, _)
requestsOf(calls, env, page) ==
  IF calls = << >> THEN << >>
  ELSE [k \in 1 .. Len(modelRequests(Head(calls), env)) |->
          [pageId |-> page, images |-> modelRequests(Head(calls), env)[k].images,
           multiplePrompt |-> modelRequests(Head(calls), env)[k].multiplePrompt]]
       \o requestsOf(Tail(calls), env, page)

(* the model is asked, then the entity is built *)
Analyze(response) ==
  /\ pc = "analyze"
  /\ response \in RunResponses
  /\ LET env == [templateLoaded |-> templateLoaded, response |-> response]
         calls == analyzerCallsFor(imageData)
         outcome == analyzeImagesNutrition(Head(calls), env)
     IN /\ analyzerCalls' = [analyzerCalls EXCEPT ![pageId] = @ + Len(calls)]
        /\ analyzerCallsRun' = [analyzerCallsRun EXCEPT ![pageId] = @ + Len(calls)]
        /\ requestsRun' = requestsRun \o requestsOf(calls, env, pageId)
        /\ modelFailed' = IF analyzeBody(Head(calls), env).kind = "throw"
                               \/ parseBody(response).kind = "throw"
                            THEN modelFailed \cup {pageId} ELSE modelFailed
        /\ IF outcome.kind = "throw"
             THEN CatchRecordError("ANALYZE")
             ELSE /\ analysisResult' = outcome.value
                  /\ nutritionAnalysis' =
                       newAnalysis(uuidv4(pageId, analyzerCalls[pageId]), DateOf(clock), imageData,
                                   outcome.value, pageId)
                  /\ pc' = "persist"
                  /\ status' = [status EXCEPT ![pageId] = "PERSIST"]
                  /\ UNCHANGED <<idx, results, imageData, errAt>>
  /\ UNCHANGED <<storeVars, clock, templateLoaded, request, pendingQueries, pageIds, runs, faults,
                 saveFailures, writeBackFailures, writeBacks, persisted, bundles>>

(* a failed save that is logged and ignored: the write-back follows *)
PersistThrowsSwallowed ==
  /\ pc = "persist" /\ faults < MaxFaults
  /\ faults' = faults + 1
  /\ saveFailures' = [saveFailures EXCEPT ![pageId] = @ + 1]
  /\ errAt' = [errAt EXCEPT ![pageId] = "PERSIST"]
  /\ pc' = "writeback"
  /\ status' = [status EXCEPT ![pageId] = "WRITE_BACK"]
  /\ UNCHANGED <<storeVars, clock, templateLoaded, request, pendingQueries, pageIds, idx, results, localVars,
                 runs, modelFailed, analyzerCalls, analyzerCallsRun, requestsRun,
                 writeBackFailures, writeBacks, persisted, bundles>>

(* analysisRepository.save throws: nothing is stored *)
PersistThrows ==
  /\ pc = "persist" /\ faults < MaxFaults
  /\ faults' = faults + 1
  /\ saveFailures' = [saveFailures EXCEPT ![pageId] = @ + 1]
  /\ CatchRecordError("PERSIST")
  /\ UNCHANGED <<storeVars, clock, templateLoaded, request, pendingQueries, pageIds, runs,
                 modelFailed, analyzerCalls, analyzerCallsRun, requestsRun,
                 writeBackFailures, writeBacks, persisted, bundles>>

(* analysisRepository.save stores the entity *)
Persist ==
  /\ pc = "persist"
  /\ inMemoryStore' = saveStore(inMemoryStore, nutritionAnalysis)
  /\ pageIdIndex' = saveIndex(pageIdIndex, nutritionAnalysis)
  /\ persisted' = IF persisted[pageId] = Null
                    THEN [persisted EXCEPT ![pageId] = nutritionAnalysis]
                    ELSE persisted
  /\ pc' = "writeback"
  /\ status' = [status EXCEPT ![pageId] = "WRITE_BACK"]
  /\ UNCHANGED <<clock, templateLoaded, request, pendingQueries, pageIds, idx, results, localVars,
                 runs, faults, errAt, modelFailed, analyzerCalls, analyzerCallsRun,
                 requestsRun, saveFailures, writeBackFailures, writeBacks, bundles>>

(* the write-back of the current record *)
currentUpdate ==
  updateData(pageId, analysisResult, nutritionAnalysis.analysisNotes, imageData.extractedDateTime)

(* updatePageWithNutritionAnalysis throws *)
WriteBackThrows ==
  /\ pc = "writeback" /\ faults < MaxFaults
  /\ faults' = faults + 1
  /\ writeBacks' = Append(writeBacks, [data |-> currentUpdate, returned |-> "throw"])
  /\ writeBackFailures' = writeBackFailures \cup {pageId}
  /\ CatchRecordError("WRITE_BACK")
  /\ UNCHANGED <<storeVars, clock, templateLoaded, request, pendingQueries, pageIds, runs,
                 modelFailed, analyzerCalls, analyzerCallsRun, requestsRun,
                 saveFailures, persisted, bundles>>

(* updatePageWithNutritionAnalysis returns true, or false after a failure  *)
(* it logged; execute does not read the value and pushes the result         *)
WriteBack(ok) ==
  /\ pc = "writeback"
  /\ ok \in BOOLEAN
  /\ ~ok => faults < MaxFaults
  /\ faults' = IF ok THEN faults ELSE faults + 1
  /\ writeBacks' = Append(writeBacks, [data |-> currentUpdate, returned |-> IF ok THEN "true" ELSE "false"])
  /\ writeBackFailures' = IF ok THEN writeBackFailures ELSE writeBackFailures \cup {pageId}
  /\ results' = pushResult(results, mapToDto(nutritionAnalysis))
  /\ EndRecord("DONE")
  /\ UNCHANGED <<storeVars, clock, templateLoaded, request, pendingQueries, pageIds, runs,
                 errAt, modelFailed, analyzerCalls, analyzerCallsRun, requestsRun,
                 saveFailures, persisted, bundles>>

----------------------------------------------------------------------------
(* NotionRepositoryImpl.updatePageWithNutritionAnalysis *)

(* The names the write-back looks for on the record, and the field of the  *)
(* user's own text.  (The names are written here without their accents.)   *)
CandidateNames ==
  {"Hora comida", "Calories", "Calorias", "Elementos", "Analisis alimentario",
   "Analysis Notes", "Notas", "Analyzed", "Analizado"}
UserFieldName == "Informacion adicional"
PropertyNames == CandidateNames \cup {UserFieldName}

(* properties[primary] ? primary : alternate, with the names swapped *)
pairNameAlternate(properties, primary, alternate) ==
  IF alternate \in properties THEN alternate ELSE primary

(* properties[primary] ? primary : alternate *)
pairName(properties, primary, alternate) ==
  IF primary \in properties THEN primary ELSE alternate

(* the current time, whether or not a capture time was extracted *)
fechaHoraNow(data, now) == now

(* updateData.extractedDateTime || new Date() *)
fechaHora(data, now) ==
  IF data.extractedDateTime.t = "null" THEN now ELSE data.extractedDateTime

(* updateData.nutrients.slice(0, 10) *)
cleanNutrients(nutrients) ==
  SubSeq(nutrients, 1, IF Len(nutrients) < 10 THEN Len(nutrients) ELSE 10)

(* The value written under a name.  The notes of the model are shorter     *)
(* than the 2000 characters substring() keeps.                              *)
propertyValue(name, data, now) ==
  CASE name = "Hora comida" -> [date |-> toISOString(fechaHora(data, now))]
    [] name \in {"Calories", "Calorias"} -> [number |-> data.calories]
    [] name = "Elementos" -> [multi_select |-> cleanNutrients(data.nutrients)]
    [] name \in {"Analyzed", "Analizado"} -> [checkbox |-> TRUE]
    [] OTHER -> [rich_text |-> data.analysisNotes]

(* an update that writes every field the record has *)
updateNamesAll(properties) == properties

(* the names updateProps gets for a record with the given properties *)
updateNames(properties) ==
  (properties \cap {"Hora comida", "Elementos", "Analisis alimentario"})
    \cup (IF {"Calories", "Calorias"} \cap properties # {}
            THEN {pairName(properties, "Calories", "Calorias")} ELSE {})
    \cup (IF {"Analysis Notes", "Notas"} \cap properties # {}
            THEN {pairName(properties, "Analysis Notes", "Notas")} ELSE {})
    \cup (IF {"Analyzed", "Analizado"} \cap properties # {}
            THEN {pairName(properties, "Analyzed", "Analizado")} ELSE {})

(* updateProps, or that building it throws: toISOString of an invalid date *)
updateProps(properties, data, now) ==
  IF "Hora comida" \in properties /\ fechaHora(data, now).t = "invalid" THEN Thrown
  ELSE Returned([name \in updateNames(properties) |-> propertyValue(name, data, now)])

(* an update that is requested for an empty updateProps too *)
sendUpdateAlways(props, env) ==
  IF env.update = "throw" THEN [outcome |-> Thrown, sent |-> << props >>]
  ELSE [outcome |-> Returned(TRUE), sent |-> << props >>]

(* the end of the try body: pages.update is called when updateProps has a  *)
(* key, and true is returned                                                *)
sendUpdate(props, env) ==
  IF DOMAIN props = {} THEN [outcome |-> Returned(TRUE), sent |-> << >>]
  ELSE IF env.update = "throw" THEN [outcome |-> Thrown, sent |-> << props >>]
  ELSE [outcome |-> Returned(TRUE), sent |-> << props >>]

(* try body: what it yields and the update requests it made.  env is what  *)
(* the record store does: whether pages.retrieve throws, the properties of *)
(* the record, whether pages.update throws, and the current time.          *)
updatePageBody(data, env) ==
  IF env.retrieve = "throw" THEN [outcome |-> Thrown, sent |-> << >>]
  ELSE IF updateProps(env.properties, data, env.now).kind = "throw"
    THEN [outcome |-> Thrown, sent |-> << >>]
  ELSE sendUpdate(updateProps(env.properties, data, env.now).value, env)

(* a catch block that logs and rethrows *)
updatePageCatchRethrow(result) == result

(* catch block: log, return false *)
updatePageCatch(result) ==
  IF result.outcome.kind = "throw" THEN [result EXCEPT !.outcome = Returned(FALSE)] ELSE result

updatePageWithNutritionAnalysis(data, env) == updatePageCatch(updatePageBody(data, env))

----------------------------------------------------------------------------
(* NotionRepositoryImpl: getImageFromPage and extractImageDataFromPage *)

(* A page as the extractor reads it:                                        *)
(*   foto   - the property 'Foto': absent, of another type than files, with *)
(*            no file, or with a first file that has no url or has one      *)
(*   others - the other properties of type files, in the order of          *)
(*            Object.entries: each with no file, or with a first file that  *)
(*            has no url or has one                                         *)
(*   list   - whether blocks.children.list returns ("ok") or throws        *)
(*   blocks - the blocks it returns: an image block with or without a url, *)
(*            a file block whose url has an image extension or not, or      *)
(*            another block                                                 *)
FotoKinds == {"absent", "notFiles", "empty", "noUrl", "url"}
FilesKinds == {"empty", "noUrl", "url"}
BlockKinds == {"image", "imageNoUrl", "fileImage", "fileOther", "other"}

(* the url found in a source: the source stands for its url *)
UrlOf(source, k) == [source |-> source, k |-> k]

(* a scan that passes over the property 'Foto' *)
scanFotoNone(page) == Null

(* lines 240-246: the first file of 'Foto' *)
scanFoto(page) == IF page.foto = "url" THEN UrlOf("Foto", 0) ELSE Null

(* lines 249-260: the first property of type files whose first file has a  *)
(* url ('Foto' is among the entries, and had none)                          *)
scanProperties(page) ==
  IF \E k \in 1 .. Len(page.others) : page.others[k] = "url"
    THEN UrlOf("property", CHOOSE k \in 1 .. Len(page.others) :
                 /\ page.others[k] = "url"
                 /\ \A j \in 1 .. k - 1 : page.others[j] # "url")
    ELSE Null

(* lines 268-287: an image block with a url, or a file block whose url     *)
(* isImageFile accepts                                                      *)
blockYields(block) == block \in {"image", "fileImage"}

(* lines 263-288: the blocks are listed, which may throw, and scanned *)
scanBlocks(page) ==
  IF page.list = "throw" THEN Thrown
  ELSE IF \E k \in 1 .. Len(page.blocks) : blockYields(page.blocks[k])
    THEN Returned(UrlOf("block", CHOOSE k \in 1 .. Len(page.blocks) :
                 /\ blockYields(page.blocks[k])
                 /\ \A j \in 1 .. k - 1 : ~blockYields(page.blocks[j])))
    ELSE Returned(Null)

(* lines 295-313: the image is downloaded, its date read, and it is        *)
(* optimised; env.fetch tells which of the two throws, env.exif the date   *)
fetchImageData(imageUrl, page, env) ==
  IF env.fetch \in {"downloadThrows", "optimizeThrows"} THEN Thrown
  ELSE Returned([ imageUrl |-> imageUrl,
                  extractedDateTime |-> env.exif,
                  pageId |-> page.id,
                  additionalInfo |-> "" ])

(* try body of extractImageDataFromPage *)
extractBody(page, env) ==
  LET inProperties == IF scanFoto(page) # Null THEN scanFoto(page) ELSE scanProperties(page)
  IN IF inProperties # Null THEN fetchImageData(inProperties, page, env)
     ELSE IF scanBlocks(page).kind = "throw" THEN Thrown
     ELSE IF scanBlocks(page).value = Null THEN Returned(Null)
     ELSE fetchImageData(scanBlocks(page).value, page, env)

(* catch block of extractImageDataFromPage: log and rethrow *)
extractCatch(outcome) == outcome

extractImageDataFromPage(page, env) == extractCatch(extractBody(page, env))

(* try body of getImageFromPage: env.retrieve tells whether pages.retrieve *)
(* throws                                                                   *)
getImageFromPageBody(page, env) ==
  IF env.retrieve = "throw" THEN Thrown ELSE extractImageDataFromPage(page, env)

(* catch block of getImageFromPage: log, return null *)
getImageFromPageCatch(outcome) ==
  IF outcome.kind = "throw" THEN Returned(Null) ELSE outcome

getImageFromPage(page, env) == getImageFromPageCatch(getImageFromPageBody(page, env))

(* line 332: the names extractAdditionalInfo passes over *)
SkippedNames ==
  {"Foto", "Hora comida", "Calories", "Calorias", "Elementos", "Nutrients",
   "Analisis alimentario", "Analysis Notes", "Notas", "Analyzed", "Analizado"}

(* A property of a record is [name, type, value]: value is "present" (a    *)
(* text, a number, an option), "empty" (no text, null, no option) or, for  *)
(* rich_text and title, "blank" (a text of white space only).              *)
(* lines 337-366: the pairs a property contributes; a pair is the label in *)
(* front of the colon and the property whose value follows it               *)
pairsOf(prop) ==
  IF prop.name \in SkippedNames THEN << >>
  ELSE IF prop.type = "rich_text" /\ prop.value # "empty"
    THEN IF prop.value = "present" THEN << [label |-> prop.name, valueOf |-> prop.name] >>
         ELSE << >>
  ELSE IF prop.type = "title" /\ prop.value # "empty"
    THEN IF prop.value = "present" THEN << [label |-> "Titulo", valueOf |-> prop.name] >>
         ELSE << >>
  ELSE IF prop.type \in {"number", "select", "multi_select"} /\ prop.value = "present"
    THEN << [label |-> prop.name, valueOf |-> prop.name] >>
  ELSE << >>

(* the loop over Object.entries(properties) *)
RECURSIVE infoOf(_)
infoOf(properties) ==
  IF properties = << >> THEN << >> ELSE pairsOf(Head(properties)) \o infoOf(Tail(properties))

(* info.join('; '): the text as the sequence of its pieces *)
Separator == [label |-> "; ", valueOf |-> ""]
RECURSIVE join(_)
join(info) ==
  IF Len(info) <= 1 THEN info ELSE << Head(info), Separator >> \o join(Tail(info))

extractAdditionalInfo(properties) == join(infoOf(properties))

(* exifr.parse(imageBuffer, {pick}): it throws, yields undefined, or an    *)
(* object in which each of the four tags is absent (NullDate here), a Date,*)
(* an Invalid Date, or a text exifr could not revive into a Date            *)
ExifText == [t |-> "string", ms |-> 0]
ExifTags == {"DateTimeOriginal", "CreateDate", "DateTime", "DateTimeDigitized"}
ExifTruthy(v) == v.t # "null"

(* a || b || c || d *)
RECURSIVE firstTruthy(_, _)
firstTruthy(exifData, tags) ==
  IF Len(tags) = 1 \/ ExifTruthy(exifData[Head(tags)]) THEN exifData[Head(tags)]
  ELSE firstTruthy(exifData, Tail(tags))

(* lines 425-428: the tags in the order of the || chain *)
creationDate(exifData) ==
  firstTruthy(exifData, << "DateTimeOriginal", "CreateDate", "DateTime", "DateTimeDigitized" >>)

(* try body of extractImageCreationDate: creationDate.toISOString() in the *)
(* log throws on an Invalid Date and on a value that is not a Date          *)
extractImageCreationDateBody(exif) ==
  IF exif.parse = "throws" THEN Thrown
  ELSE IF exif.parse = "undefined" THEN Returned(NullDate)
  ELSE IF ~ExifTruthy(creationDate(exif.data)) THEN Returned(NullDate)
  ELSE IF creationDate(exif.data).t # "date" THEN Thrown
  ELSE Returned(creationDate(exif.data))

(* catch block of extractImageCreationDate: log, return null *)
extractImageCreationDateCatch(outcome) ==
  IF outcome.kind = "throw" THEN Returned(NullDate) ELSE outcome

extractImageCreationDate(exif) ==
  extractImageCreationDateCatch(extractImageCreationDateBody(exif))

----------------------------------------------------------------------------
(* loadConfig and the command line script *)

RequiredVars == << "NOTION_API_KEY", "NOTION_DATABASE_ID", "OPENAI_API_KEY" >>

(* a variable of process.env: not set, set to the empty string, or set *)
EnvValues == {"unset", "empty", "set"}

(* a test for undefined only: the empty string passes *)
isMissingUnsetOnly(value) == value = "unset"

(* !value *)
isMissing(value) == value \in {"unset", "empty"}

(* Object.entries(requiredVars).filter(([_, value]) => !value).map(([key]) => key) *)
RECURSIVE missingFrom(_, _)
missingFrom(environment, k) ==
  IF k > Len(RequiredVars) THEN << >>
  ELSE (IF isMissing(environment[RequiredVars[k]]) THEN << RequiredVars[k] >> ELSE << >>)
         \o missingFrom(environment, k + 1)

missingVars(environment) == missingFrom(environment, 1)

(* loadConfig: throws an Error whose message lists missingVars, or returns *)
(* the configuration                                                        *)
loadConfig(environment) ==
  IF Len(missingVars(environment)) > 0
    THEN [kind |-> "throw", message |-> missingVars(environment)]
    ELSE Returned([ apiKey |-> environment["NOTION_API_KEY"],
                    databaseId |-> environment["NOTION_DATABASE_ID"],
                    openaiKey |-> environment["OPENAI_API_KEY"] ])

----------------------------------------------------------------------------
(* Calls of the pure functions on their own *)

VARIABLE call      \* the function called, its argument and, once done, its outcome

PresentValues == {Undef, Null, Bool(TRUE), Bool(FALSE), Str("yes"), Str(""), Num(0), Num(10)}
PortionValues == {Undef, Null, Str("alta"), Str("media"), Str("baja"), Str("high"), Str("ALTA"), Num(10)}
ConfidenceValues ==
  {Undef, Null, Num(0), Num(5), Num(9), Num(10), Num(15), Num(-3), Str("0.7"), Str("abc"),
   PosInf, NegInf, Bool(TRUE), Obj}

CategoryPayloads ==
  {CatPrimitive(k) : k \in {"undefined", "null", "string", "number"}}
    \cup {CatObject(p, q, c) : p \in PresentValues, q \in PortionValues, c \in ConfidenceValues}

NoCall == [op |-> "none"]

vars == <<inMemoryStore, pageIdIndex, clock, templateLoaded, pc, request, pendingQueries, pageIds,
          idx, results, imageData, analysisResult, nutritionAnalysis, runs, faults, status,
          errAt, modelFailed, analyzerCalls, analyzerCallsRun, requestsRun, saveFailures, writeBackFailures,
          writeBacks, persisted, bundles, call>>

useCaseVars == <<inMemoryStore, pageIdIndex, clock, templateLoaded, pc, request,
                 pendingQueries, pageIds, idx, results, imageData, analysisResult, nutritionAnalysis, runs,
                 faults, status, errAt, modelFailed, analyzerCalls, analyzerCallsRun,
                 requestsRun, saveFailures, writeBackFailures, writeBacks, persisted, bundles>>

(* the state after the container built the singletons *)
InitUseCase ==
  /\ inMemoryStore = << >>
  /\ pageIdIndex = << >>
  /\ clock = 10
  /\ pc = "idle"
  /\ request = Null
  /\ pendingQueries = << >>
  /\ pageIds = << >>
  /\ idx = 1
  /\ results = << >>
  /\ imageData = Null
  /\ analysisResult = Null
  /\ nutritionAnalysis = Null
  /\ runs = 0
  /\ faults = 0
  /\ status = [p \in Pages |-> "NONE"]
  /\ errAt = [p \in Pages |-> "none"]
  /\ modelFailed = {}
  /\ analyzerCalls = [p \in Pages |-> 0]
  /\ analyzerCallsRun = [p \in Pages |-> 0]
  /\ requestsRun = << >>
  /\ saveFailures = [p \in Pages |-> 0]
  /\ writeBackFailures = {}
  /\ writeBacks = << >>
  /\ persisted = [p \in Pages |-> Null]
  /\ bundles = [p \in Pages |-> Null]

Init ==
  /\ InitUseCase
  /\ templateLoaded \in BOOLEAN
  /\ call = NoCall

Next ==
  \/ \E p \in Pages : ExecutePage(p) /\ UNCHANGED call
  \/ \E limit \in Limits : \E d \in getPendingPageIds(limit) :
        ExecutePending(limit, d) /\ UNCHANGED call
  \/ \E limit \in Limits : ExecutePendingThrows(limit) /\ UNCHANGED call
  \/ SkipExisting /\ UNCHANGED call
  \/ CheckExisting /\ UNCHANGED call
  \/ ExtractThrows /\ UNCHANGED call
  \/ pc = "extract" /\ \E e \in getAllImagesFromPage(pageId) : Extract(e) /\ UNCHANGED call
  \/ \E r \in RunResponses : Analyze(r) /\ UNCHANGED call
  \/ PersistThrows /\ UNCHANGED call
  \/ Persist /\ UNCHANGED call
  \/ WriteBackThrows /\ UNCHANGED call
  \/ \E ok \in BOOLEAN : WriteBack(ok) /\ UNCHANGED call

Spec == Init /\ [][Next]_vars

(* A call of execute that has started takes its next step: every await of *)
(* the loop body resolves or rejects, and the code after it runs.           *)
RunStep ==
  \/ SkipExisting /\ UNCHANGED call
  \/ CheckExisting /\ UNCHANGED call
  \/ ExtractThrows /\ UNCHANGED call
  \/ pc = "extract" /\ \E e \in getAllImagesFromPage(pageId) : Extract(e) /\ UNCHANGED call
  \/ \E r \in RunResponses : Analyze(r) /\ UNCHANGED call
  \/ PersistThrows /\ UNCHANGED call
  \/ Persist /\ UNCHANGED call
  \/ WriteBackThrows /\ UNCHANGED call
  \/ \E ok \in BOOLEAN : WriteBack(ok) /\ UNCHANGED call

(* the calls of execute when no collaborator call stays pending for ever *)
SpecLive == Init /\ [][Next]_vars /\ WF_vars(RunStep)

(* the answers of the model analyzeImagesNutrition is called with *)
CaloriePayloads ==
  {CalPrimitive(k) : k \in {"undefined", "null", "falsy", "truthy"}}
    \cup {CalObject(total, range, c) :
            total \in {Num(4500), Num(-500), Str("450"), Str("abc"), PosInf, Undef},
            range \in {RangePrimitive("undefined"), RangeObject(Num(4000), Num(5000)),
                       RangeObject(Str("abc"), NegInf)},
            c \in {Num(8), Num(0), Num(15), Undef}}

CategoriesPayloads ==
  {CatsPrimitive(k) : k \in {"undefined", "null", "falsy", "truthy"}}
    \cup {CatsObject([c \in CategoryNames |-> x]) :
            x \in {CatPrimitive("undefined"), CatPrimitive("null"), AbsentCategory,
                   CatObject(Bool(TRUE), Str("alta"), Num(9)),
                   CatObject(Str("yes"), Str("high"), Num(15))}}

NotesValues == {Undef, Str(""), Str("Plato equilibrado"), Num(50)}

Responses ==
  {FailedResponse(k) : k \in {"throw", "empty", "nojson", "badjson"}}
    \cup {JsonResponse(cal, cats, notes) :
            cal \in CaloriePayloads, cats \in CategoriesPayloads, notes \in NotesValues}

AnalyzerArguments ==
  {[nImages |-> n, env |-> [templateLoaded |-> t, response |-> r]] :
     n \in 1 .. MaxImages, t \in BOOLEAN, r \in Responses}

(* the records of the store the write-back is called for, and the calls *)
RecordSchemas == SUBSET PropertyNames

(* a retrieve that throws hands over no schema, and no update follows it *)
UpdateEnvironments ==
  {[retrieve |-> "ok", properties |-> properties, update |-> u, now |-> DateOf(9)] :
     properties \in RecordSchemas, u \in {"ok", "throw"}}
    \cup {[retrieve |-> "throw", properties |-> {}, update |-> "ok", now |-> DateOf(9)]}

UpdateArguments ==
  {[data |-> updateData(1, result, combinedNotes(1, result.analysisNotes), capturedAt),
    env |-> env] :
     result \in {parseOpenAIResponse(NormalResponse).value, getFallbackAnalysis},
     capturedAt \in {NullDate, CaptureTime, InvalidDate},
     env \in UpdateEnvironments}

(* the pages the extractor is called for, and what its collaborators do *)
MaxScanned == 2

RECURSIVE ListsOver(_, _)
ListsOver(S, n) ==
  IF n = 0 THEN {<< >>}
  ELSE ListsOver(S, n - 1) \cup {Append(l, x) : l \in ListsOver(S, n - 1), x \in S}

ExtractorPages ==
  {[id |-> 1, foto |-> f, others |-> o, list |-> "ok", blocks |-> b] :
     f \in FotoKinds, o \in ListsOver(FilesKinds, MaxScanned),
     b \in ListsOver(BlockKinds, MaxScanned)}
    \cup {[id |-> 1, foto |-> f, others |-> o, list |-> "throw", blocks |-> << >>] :
     f \in FotoKinds, o \in ListsOver(FilesKinds, MaxScanned)}

(* an image that is not downloaded has no date to read *)
ExtractorEnvironments ==
  {[retrieve |-> "ok", fetch |-> "ok", exif |-> d] : d \in {NullDate, CaptureTime}}
    \cup {[retrieve |-> "ok", fetch |-> f, exif |-> NullDate] :
            f \in {"downloadThrows", "optimizeThrows"}}

ExtractorArguments ==
  {[page |-> page, env |-> env] : page \in ExtractorPages, env \in ExtractorEnvironments}

GetImageArguments ==
  {[page |-> page, env |-> [retrieve |-> r, fetch |-> f, exif |-> CaptureTime]] :
     page \in {x \in ExtractorPages : x.others = << >>},
     r \in {"ok", "throw"}, f \in {"ok", "downloadThrows"}}

(* the records extractAdditionalInfo is called for: up to MaxProperties     *)
(* properties with different names                                          *)
MaxProperties == 2
RecordProperties ==
  {[name |-> n, type |-> t, value |-> v] :
     n \in {"Notas", "Comentario", "Nombre"},
     t \in {"rich_text", "title", "number", "select", "multi_select", "checkbox"},
     v \in {"present", "empty"}}
    \cup {[name |-> n, type |-> t, value |-> "blank"] :
            n \in {"Notas", "Comentario", "Nombre"}, t \in {"rich_text", "title"}}

PropertyLists ==
  {l \in ListsOver(RecordProperties, MaxProperties) :
     \A j, k \in 1 .. Len(l) : j # k => l[j].name # l[k].name}

(* the metadata of the images extractImageCreationDate is called for: each *)
(* tag, when it is a Date, has a time of its own                            *)
ExifArguments ==
  {[parse |-> k, data |-> [tag \in ExifTags |-> NullDate]] : k \in {"throws", "undefined"}}
    \cup {[parse |-> "object",
           data |-> [tag \in ExifTags |->
                       CASE tag = "DateTimeOriginal" -> a [] tag = "CreateDate" -> b
                         [] tag = "DateTime" -> c [] OTHER -> d]] :
            a \in {NullDate, DateOf(1), InvalidDate, ExifText},
            b \in {NullDate, DateOf(2), InvalidDate, ExifText},
            c \in {NullDate, DateOf(3), InvalidDate, ExifText},
            d \in {NullDate, DateOf(4), InvalidDate, ExifText}}

(* the bundles a prompt is built for: the number of images, the capture    *)
(* time, the user's text, and the template the service holds                *)
PromptArguments ==
  {[nImages |-> n, extractedDateTime |-> d, additionalInfo |-> a, template |-> t] :
     n \in 0 .. MaxImages + 1, d \in {NullDate, CaptureTime},
     a \in {"", "sin gluten", "{{timeContext}}"}, t \in {Template, << >>}}

(* the results of the analyzer a write-back is built from: every choice of  *)
(* the categories that are present, with two portions, and the fallback     *)
WriteBackResults ==
  {getFallbackAnalysis}
    \cup {[getFallbackAnalysis EXCEPT !.nutritionalCategories = cats] :
            cats \in [CategoryNames ->
                       {[present |-> b, portion |-> q, confidence |-> Num(9)] :
                          b \in BOOLEAN, q \in {"alta", "baja"}}]}

Environments == [{RequiredVars[k] : k \in 1 .. Len(RequiredVars)} -> EnvValues]

(* a run of the script: its environment, and what execute does when called *)
MainArguments ==
  {[environment |-> e, execute |-> x] : e \in Environments, x \in {"throws", "empty", "results"}}

InitFn ==
  /\ InitUseCase
  /\ templateLoaded = TRUE
  /\ \/ call \in {[op |-> "validateCategoryInfo", arg |-> x, done |-> FALSE, outcome |-> Thrown] :
                 x \in CategoryPayloads}
     \/ call \in {[op |-> "analyzeImagesNutrition", arg |-> x, done |-> FALSE, outcome |-> Thrown] :
                 x \in AnalyzerArguments}
     \/ call \in {[op |-> "updatePageWithNutritionAnalysis", arg |-> x, done |-> FALSE,
                   outcome |-> Thrown] : x \in UpdateArguments}
     \/ call \in {[op |-> "extractImageDataFromPage", arg |-> x, done |-> FALSE,
                   outcome |-> Thrown] : x \in ExtractorArguments}
     \/ call \in {[op |-> "getImageFromPage", arg |-> x, done |-> FALSE,
                   outcome |-> Thrown] : x \in GetImageArguments}
     \/ call \in {[op |-> "extractAdditionalInfo", arg |-> x, done |-> FALSE,
                   outcome |-> Thrown] : x \in PropertyLists}
     \/ call \in {[op |-> "extractImageCreationDate", arg |-> x, done |-> FALSE,
                   outcome |-> Thrown] : x \in ExifArguments}
     \/ call \in {[op |-> "prompt", arg |-> x, done |-> FALSE, outcome |-> Thrown] :
                 x \in PromptArguments}
     \/ call \in {[op |-> "updateData", arg |-> x, done |-> FALSE, outcome |-> Thrown] :
                 x \in WriteBackResults}
     \/ call \in {[op |-> "loadConfig", arg |-> x, done |-> FALSE, outcome |-> Thrown] :
                 x \in Environments}
     \/ call \in {[op |-> "main", arg |-> x, done |-> FALSE,
                   outcome |-> [step |-> "start", executeCalls |-> 0, exitCode |-> -1]] :
                 x \in MainArguments}

CallValidateCategoryInfo ==
  /\ call.op = "validateCategoryInfo" /\ ~call.done
  /\ call' = [call EXCEPT !.done = TRUE, !.outcome = validateCategoryInfo(call.arg)]
  /\ UNCHANGED useCaseVars

CallAnalyzeImagesNutrition ==
  /\ call.op = "analyzeImagesNutrition" /\ ~call.done
  /\ call' = [call EXCEPT !.done = TRUE,
                          !.outcome = analyzeImagesNutrition(call.arg.nImages, call.arg.env)]
  /\ UNCHANGED useCaseVars

CallUpdatePageWithNutritionAnalysis ==
  /\ call.op = "updatePageWithNutritionAnalysis" /\ ~call.done
  /\ call' = [call EXCEPT !.done = TRUE,
                          !.outcome = updatePageWithNutritionAnalysis(call.arg.data, call.arg.env)]
  /\ UNCHANGED useCaseVars

CallExtractImageDataFromPage ==
  /\ call.op = "extractImageDataFromPage" /\ ~call.done
  /\ call' = [call EXCEPT !.done = TRUE,
                          !.outcome = extractImageDataFromPage(call.arg.page, call.arg.env)]
  /\ UNCHANGED useCaseVars

CallGetImageFromPage ==
  /\ call.op = "getImageFromPage" /\ ~call.done
  /\ call' = [call EXCEPT !.done = TRUE,
                          !.outcome = getImageFromPage(call.arg.page, call.arg.env)]
  /\ UNCHANGED useCaseVars

CallExtractAdditionalInfo ==
  /\ call.op = "extractAdditionalInfo" /\ ~call.done
  /\ call' = [call EXCEPT !.done = TRUE, !.outcome = Returned(extractAdditionalInfo(call.arg))]
  /\ UNCHANGED useCaseVars

CallExtractImageCreationDate ==
  /\ call.op = "extractImageCreationDate" /\ ~call.done
  /\ call' = [call EXCEPT !.done = TRUE, !.outcome = extractImageCreationDate(call.arg)]
  /\ UNCHANGED useCaseVars

(* analyzeImagesNutrition, lines 50-61: the prompt is built *)
CallPrompt ==
  /\ call.op = "prompt" /\ ~call.done
  /\ call' = [call EXCEPT !.done = TRUE,
                          !.outcome = prompt(call.arg.nImages, call.arg.extractedDateTime,
                                             call.arg.additionalInfo, call.arg.template)]
  /\ UNCHANGED useCaseVars

(* execute, lines 98-112: the argument of the write-back is built *)
CallUpdateData ==
  /\ call.op = "updateData" /\ ~call.done
  /\ call' = [call EXCEPT !.done = TRUE,
                          !.outcome = Returned(updateData(1, call.arg,
                                                 combinedNotes(1, call.arg.analysisNotes), NullDate))]
  /\ UNCHANGED useCaseVars

CallLoadConfig ==
  /\ call.op = "loadConfig" /\ ~call.done
  /\ call' = [call EXCEPT !.done = TRUE, !.outcome = loadConfig(call.arg)]
  /\ UNCHANGED useCaseVars

(* main, line 12: container.get('Config') runs loadConfig; when it throws, *)
(* the catch of main logs and calls process.exit(1)                         *)
MainGetConfig ==
  /\ call.op = "main" /\ call.outcome.step = "start"
  /\ call' = IF loadConfig(call.arg.environment).kind = "throw"
               THEN [call EXCEPT !.done = TRUE, !.outcome.step = "exited", !.outcome.exitCode = 1]
               ELSE [call EXCEPT !.outcome.step = "configured"]
  /\ UNCHANGED useCaseVars

(* main, line 31: the use case is taken from the container *)
MainGetUseCase ==
  /\ call.op = "main" /\ call.outcome.step = "configured"
  /\ call' = [call EXCEPT !.outcome.step = "ready"]
  /\ UNCHANGED useCaseVars

(* main, lines 34-93: execute is called; the script ends with code 1 when  *)
(* it throws and with code 0 otherwise                                      *)
MainExecute ==
  /\ call.op = "main" /\ call.outcome.step = "ready"
  /\ call' = [call EXCEPT !.done = TRUE,
                          !.outcome.step = "exited",
                          !.outcome.executeCalls = @ + 1,
                          !.outcome.exitCode = IF call.arg.execute = "throws" THEN 1 ELSE 0]
  /\ UNCHANGED useCaseVars

NextFn ==
  \/ CallLoadConfig
  \/ MainGetConfig
  \/ MainGetUseCase
  \/ MainExecute
  \/ CallValidateCategoryInfo
  \/ CallAnalyzeImagesNutrition
  \/ CallUpdatePageWithNutritionAnalysis
  \/ CallExtractImageDataFromPage
  \/ CallGetImageFromPage
  \/ CallExtractImageCreationDate
  \/ CallExtractAdditionalInfo
  \/ CallPrompt
  \/ CallUpdateData

SpecFn == InitFn /\ [][NextFn]_vars

----------------------------------------------------------------------------
(* Calls of NutritionAnalysisRepositoryImpl on their own *)

StoreIds == {1, 2}
StorePages == {NoPage, 1, 2}
StoreDates == {DateOf(1), DateOf(2)}
DateArguments == StoreDates \cup {InvalidDate}

(* the entities offered to save: built as execute builds them *)
StoreEntities ==
  {newAnalysis(id, created, Bundle(1, 1, captured), result, page) :
     id \in StoreIds, created \in StoreDates,
     captured \in {NullDate, InvalidDate, DateOf(2)},
     result \in {parseOpenAIResponse(NormalResponse).value,
                  parseOpenAIResponse(HugeResponse).value},
     page \in StorePages}

InitStore ==
  /\ InitUseCase
  /\ templateLoaded = TRUE
  /\ call = [op |-> "none", saves |-> 0]

CallSave(analysis) ==
  /\ call.saves < MaxSaves
  /\ call' = [op |-> "save", arg |-> analysis, outcome |-> save(analysis),
              saves |-> call.saves + 1]
  /\ IF save(analysis).kind = "value"
       THEN /\ inMemoryStore' = saveStore(inMemoryStore, analysis)
            /\ pageIdIndex' = saveIndex(pageIdIndex, analysis)
       ELSE UNCHANGED storeVars

CallFindById(id) ==
  /\ call' = [op |-> "findById", arg |-> id, outcome |-> Returned(findById(id)),
              saves |-> call.saves]
  /\ UNCHANGED storeVars

CallFindByNotionPageId(page) ==
  /\ call' = [op |-> "findByNotionPageId", arg |-> page,
              outcome |-> Returned(findByNotionPageId(page)), saves |-> call.saves]
  /\ UNCHANGED storeVars

CallFindByDateRange(startDate, endDate) ==
  /\ call' = [op |-> "findByDateRange", arg |-> [startDate |-> startDate, endDate |-> endDate],
              outcome |-> findByDateRange(startDate, endDate), saves |-> call.saves]
  /\ UNCHANGED storeVars

CallFindAll(offset, limit) ==
  /\ call' = [op |-> "findAll", arg |-> [offset |-> offset, limit |-> limit],
              outcome |-> findAll(offset, limit), saves |-> call.saves]
  /\ UNCHANGED storeVars

callerVars == <<clock, templateLoaded, pc, request, pendingQueries, pageIds, idx, results,
                imageData, analysisResult, nutritionAnalysis, runs, faults, status, errAt,
                modelFailed, analyzerCalls, analyzerCallsRun, requestsRun, saveFailures, writeBackFailures,
                writeBacks, persisted, bundles>>

NextStore ==
  \/ \E a \in StoreEntities : CallSave(a) /\ UNCHANGED callerVars
  \/ \E id \in StoreIds : CallFindById(id) /\ UNCHANGED callerVars
  \/ \E page \in StorePages \ {NoPage} : CallFindByNotionPageId(page) /\ UNCHANGED callerVars
  \/ \E startDate \in DateArguments, endDate \in DateArguments :
        CallFindByDateRange(startDate, endDate) /\ UNCHANGED callerVars
  \/ \E offset \in 0 .. 1, limit \in 0 .. 2 :
        CallFindAll(offset, limit) /\ UNCHANGED callerVars

SpecStore == InitStore /\ [][NextStore]_vars

----------------------------------------------------------------------------
(* Saves that resolve, one after the other.  call keeps the entities saved *)
(* so far and the two maps as they were before the last save.               *)

InitSaves ==
  /\ InitUseCase
  /\ templateLoaded = TRUE
  /\ call = [op |-> "save", saved |-> << >>,
             before |-> [inMemoryStore |-> << >>, pageIdIndex |-> << >>]]

(* save(analysis) resolves *)
SaveNext(analysis) ==
  /\ Len(call.saved) < MaxSaves
  /\ save(analysis).kind = "value"
  /\ call' = [call EXCEPT !.saved = Append(@, analysis),
                          !.before = [inMemoryStore |-> inMemoryStore,
                                      pageIdIndex |-> pageIdIndex]]
  /\ inMemoryStore' = saveStore(inMemoryStore, analysis)
  /\ pageIdIndex' = saveIndex(pageIdIndex, analysis)

NextSaves == \E a \in StoreEntities : SaveNext(a) /\ UNCHANGED callerVars

SpecSaves == InitSaves /\ [][NextSaves]_vars

----------------------------------------------------------------------------
(* Calls of execute that overlap on the singleton store *)

MaxInvocations == 2
Invocations == 1 .. MaxInvocations
OverlapPages == {1, 2}

(* the locals of one call of execute({databaseId, pageId}) *)
IdleExecution ==
  [ pc |-> "idle", pageId |-> NoPage, imageData |-> Null, analysisResult |-> Null,
    nutritionAnalysis |-> Null, results |-> << >> ]

execution(i) == call.executions[i]

(* call i goes on to its next await with the locals e *)
Resume(i, e) == call' = [call EXCEPT !.executions[i] = e]

(* an existence check that also finds the record another call of execute   *)
(* has checked and not yet saved                                            *)
existingAnalysisReserved(i) ==
  IF \E j \in Invocations \ {i} :
       /\ execution(j).pageId = execution(i).pageId
       /\ execution(j).pc \in {"extract", "analyze", "persist"}
    THEN newAnalysis(uuidv4(execution(i).pageId, 0), DateOf(clock),
                     Bundle(execution(i).pageId, 1, NullDate), getFallbackAnalysis,
                     execution(i).pageId)
    ELSE findByNotionPageId(execution(i).pageId)

(* await this.analysisRepository.findByNotionPageId(pageId) *)
existingAnalysis(i) == findByNotionPageId(execution(i).pageId)

InitOverlap ==
  /\ InitUseCase
  /\ templateLoaded = TRUE
  /\ call = [op |-> "overlap", executions |-> [i \in Invocations |-> IdleExecution]]

(* execute({databaseId, pageId: p}) is called: pageIds is [p] *)
OverlapExecute(i, p) ==
  /\ execution(i).pc = "idle"
  /\ Resume(i, [IdleExecution EXCEPT !.pc = "check", !.pageId = p])
  /\ UNCHANGED <<storeVars, analyzerCalls, faults>>

(* the existence check resolves: the result is pushed, or the images are   *)
(* fetched next                                                             *)
OverlapCheck(i) ==
  /\ execution(i).pc = "check"
  /\ Resume(i, IF existingAnalysis(i) # Null
                 THEN [execution(i) EXCEPT !.pc = "returned",
                         !.results = pushResult(@, mapToDto(existingAnalysis(i)))]
                 ELSE [execution(i) EXCEPT !.pc = "extract"])
  /\ UNCHANGED <<storeVars, analyzerCalls, faults>>

(* getAllImagesFromPage resolves or rejects *)
OverlapExtract(i, extracted) ==
  /\ execution(i).pc = "extract"
  /\ extracted \in getAllImagesFromPage(execution(i).pageId)
  /\ extracted.kind = "throw" => faults < MaxFaults
  /\ faults' = IF extracted.kind = "throw" THEN faults + 1 ELSE faults
  /\ Resume(i, IF extracted.kind = "throw" THEN [execution(i) EXCEPT !.pc = "returned"]
               ELSE IF extracted.value = Null \/ Len(extracted.value.images) = 0
                 THEN [execution(i) EXCEPT !.pc = "returned"]
                 ELSE [execution(i) EXCEPT !.pc = "analyze", !.imageData = extracted.value])
  /\ UNCHANGED <<storeVars, analyzerCalls>>

(* analyzeImagesNutrition resolves and the entity is built *)
OverlapAnalyze(i, response) ==
  /\ execution(i).pc = "analyze"
  /\ LET e == execution(i)
         env == [templateLoaded |-> templateLoaded, response |-> response]
         outcome == analyzeImagesNutrition(Len(e.imageData.images), env)
     IN /\ analyzerCalls' = [analyzerCalls EXCEPT ![e.pageId] = @ + 1]
        /\ Resume(i, IF outcome.kind = "throw" THEN [e EXCEPT !.pc = "returned"]
                     ELSE [e EXCEPT !.pc = "persist",
                             !.analysisResult = outcome.value,
                             !.nutritionAnalysis =
                                newAnalysis(uuidv4(e.pageId, analyzerCalls[e.pageId]),
                                            DateOf(clock), e.imageData, outcome.value,
                                            e.pageId)])
  /\ UNCHANGED <<storeVars, faults>>

(* analysisRepository.save rejects: the catch of the loop body *)
OverlapPersistThrows(i) ==
  /\ execution(i).pc = "persist" /\ faults < MaxFaults
  /\ faults' = faults + 1
  /\ Resume(i, [execution(i) EXCEPT !.pc = "returned"])
  /\ UNCHANGED <<storeVars, analyzerCalls>>

(* analysisRepository.save resolves *)
OverlapPersist(i) ==
  /\ execution(i).pc = "persist"
  /\ inMemoryStore' = saveStore(inMemoryStore, execution(i).nutritionAnalysis)
  /\ pageIdIndex' = saveIndex(pageIdIndex, execution(i).nutritionAnalysis)
  /\ Resume(i, [execution(i) EXCEPT !.pc = "writeback"])
  /\ UNCHANGED <<analyzerCalls, faults>>

(* updatePageWithNutritionAnalysis resolves with true or false, or rejects *)
OverlapWriteBack(i, returned) ==
  /\ execution(i).pc = "writeback"
  /\ returned \in {"true", "false", "throw"}
  /\ returned # "true" => faults < MaxFaults
  /\ faults' = IF returned = "true" THEN faults ELSE faults + 1
  /\ Resume(i, IF returned = "throw" THEN [execution(i) EXCEPT !.pc = "returned"]
               ELSE [execution(i) EXCEPT !.pc = "returned",
                       !.results = pushResult(@, mapToDto(execution(i).nutritionAnalysis))])
  /\ UNCHANGED <<storeVars, analyzerCalls>>

overlapIdle == <<clock, templateLoaded, pc, request, pendingQueries, pageIds, idx, results,
                 imageData, analysisResult, nutritionAnalysis, runs, status, errAt,
                 modelFailed, analyzerCallsRun, requestsRun, saveFailures, writeBackFailures, writeBacks,
                 persisted, bundles>>

NextOverlap ==
  \/ \E i \in Invocations, p \in OverlapPages : OverlapExecute(i, p) /\ UNCHANGED overlapIdle
  \/ \E i \in Invocations : OverlapCheck(i) /\ UNCHANGED overlapIdle
  \/ \E i \in Invocations : \E e \in getAllImagesFromPage(execution(i).pageId) :
        OverlapExtract(i, e) /\ UNCHANGED overlapIdle
  \/ \E i \in Invocations, r \in {NormalResponse, FailedResponse("throw")} :
        OverlapAnalyze(i, r) /\ UNCHANGED overlapIdle
  \/ \E i \in Invocations : OverlapPersistThrows(i) /\ UNCHANGED overlapIdle
  \/ \E i \in Invocations : OverlapPersist(i) /\ UNCHANGED overlapIdle
  \/ \E i \in Invocations, r \in {"true", "false", "throw"} :
        OverlapWriteBack(i, r) /\ UNCHANGED overlapIdle

SpecOverlap == InitOverlap /\ [][NextOverlap]_vars

----------------------------------------------------------------------------
(* Properties *)

Discovered == {pageIds[k] : k \in 1 .. Len(pageIds)}
PositionOf(p) == CHOOSE k \in 1 .. Len(pageIds) : pageIds[k] = p
EntriesFor(p) == {k \in 1 .. Len(results) : results[k].notionPageId = p}
RequestsFor(p) == {k \in 1 .. Len(requestsRun) : requestsRun[k].pageId = p}
WriteBacksFor(p) == {k \in 1 .. Len(writeBacks) : writeBacks[k].data.pageId = p}

(* the model was asked about p in the current call *)
Analyzed(p) == status[p] \in {"PERSIST", "WRITE_BACK", "DONE"} \/ errAt[p] \in {"PERSIST", "WRITE_BACK"}
(* the result of p was saved in the current call *)
SavedThisRun(p) == status[p] \in {"WRITE_BACK", "DONE"} \/ errAt[p] = "WRITE_BACK"

(* the fallback as documented: zero calories, all categories absent, low   *)
(* portion, confidence 0.1, the fixed notes                                 *)
DocumentedFallback ==
  [ calories |-> [ totalCalories |-> Num(0),
                   caloriesRange |-> [min |-> Num(0), max |-> Num(0)],
                   confidence |-> Num(1) ],
    nutritionalCategories |->
      [c \in CategoryNames |-> [present |-> FALSE, portion |-> "baja", confidence |-> Num(1)]],
    analysisNotes |-> "No se pudo completar el analisis nutricional" ]

(* C1: in every state reached by sequential calls of execute on one store, *)
(* every record id has at most one persisted result.                        *)
C1_AtMostOneResultPerRecord ==
  \A p \in Pages : Cardinality(StoredFor(p)) <= 1

C1_Witness ==
  \E p \in Pages : Cardinality(StoredFor(p)) = 1 /\ runs >= 2 /\ status[p] = "SKIP_EXISTING"

(* C2: a later call that discovers a record with a persisted result leaves *)
(* exactly one persisted result for it and returns an entry equal, in the   *)
(* id and in every field, to the result the first call produced.            *)
C2_SecondCallReturnsFirstResult ==
  \A p \in Pages :
    status[p] = "SKIP_EXISTING" =>
      /\ Cardinality(StoredFor(p)) = 1
      /\ \A k \in EntriesFor(p) : results[k] = mapToDto(persisted[p])

(* C3, as claimed: over all calls of execute the model is asked at most    *)
(* once about any record.                                                   *)
C3_AnalyzedAtMostOnce ==
  \A p \in Pages : analyzerCalls[p] <= 1

(* C3, amended: the model is asked about a record at most once more than   *)
(* the number of saves of that record's result that threw.                  *)
C3_AnalyzedOncePerFailedSave ==
  \A p \in Pages : analyzerCalls[p] <= 1 + saveFailures[p]

C3_Witness ==
  \E p \in Pages :
    analyzerCalls[p] = 2 /\ saveFailures[p] = 1 /\ Cardinality(StoredFor(p)) = 1

(* C4: for a record with N >= 1 images and no existing result, execute     *)
(* calls the analyzer once, the model gets one request that carries all N   *)
(* images, and the result persisted and returned has the URL of the first   *)
(* image.                                                                   *)
C4_OneCallFirstImage ==
  \A p \in Pages :
    Analyzed(p) =>
      /\ analyzerCallsRun[p] = 1
      /\ Cardinality(RequestsFor(p)) = (IF templateLoaded THEN 1 ELSE 0)
      /\ \A k \in RequestsFor(p) : requestsRun[k].images = Len(bundles[p].images)
      /\ SavedThisRun(p) =>
           /\ StoredFor(p) # {}
           /\ \A id \in StoredFor(p) :
                inMemoryStore[id].imageUrl = bundles[p].images[1].imageUrl
      /\ \A k \in EntriesFor(p) : results[k].imageUrl = bundles[p].images[1].imageUrl

C4_Witness ==
  \E p \in Pages :
    /\ status[p] = "DONE"
    /\ Len(bundles[p].images) > 1
    /\ Cardinality(RequestsFor(p)) = 1
    /\ EntriesFor(p) # {}

(* C5: when the extraction of record j throws, execute does not throw, the *)
(* list has at most K-1 entries and none for j, and the records after j     *)
(* reach a terminal state.                                                  *)
C5_ExtractionFailureIsolated ==
  \A j \in Pages :
    errAt[j] = "EXTRACT" =>
      /\ pc # "thrown"
      /\ status[j] = "SKIP_ERROR"
      /\ EntriesFor(j) = {}
      /\ Len(results) <= Len(pageIds) - 1
      /\ pc = "returned" => \A p \in Discovered : status[p] \in TerminalStates

C5_Witness ==
  /\ pc = "returned"
  /\ \E j, p \in Discovered :
       /\ errAt[j] = "EXTRACT"
       /\ PositionOf(j) < PositionOf(p)
       /\ status[p] = "DONE"

(* an entry that carries the fallback *)
CarriesFallback(entry) ==
  /\ entry.calories = DocumentedFallback.calories
  /\ entry.nutritionalCategories = DocumentedFallback.nutritionalCategories
  /\ entry.analysisNotes.text = DocumentedFallback.analysisNotes

(* the scenario: three pending records, A without image, B whose model     *)
(* call fails, C analysed normally                                          *)
Scenario ==
  /\ pc = "returned"
  /\ Len(pageIds) = 3
  /\ status[pageIds[1]] = "SKIP_NO_IMAGES"
  /\ pageIds[2] \in modelFailed /\ errAt[pageIds[2]] = "none"
  /\ pageIds[3] \notin modelFailed /\ errAt[pageIds[3]] = "none"
  /\ analyzerCallsRun[pageIds[3]] = 1

(* C6: a record without images has no entry; a record whose model call     *)
(* fails has exactly one entry, which carries the fallback and is persisted *)
(* and written back; in the scenario the list is B, C.                      *)
C6_FallbackIsAResult ==
  /\ \A p \in Pages : status[p] = "SKIP_NO_IMAGES" => EntriesFor(p) = {}
  /\ \A p \in modelFailed :
       (status[p] \in TerminalStates /\ errAt[p] \notin {"PERSIST", "WRITE_BACK"}) =>
          /\ status[p] = "DONE"
          /\ Cardinality(EntriesFor(p)) = 1
          /\ \A k \in EntriesFor(p) :
                /\ CarriesFallback(results[k])
                /\ results[k].id \in StoredFor(p)
          /\ \E w \in WriteBacksFor(p) :
                writeBacks[w].data.calories = DocumentedFallback.calories.totalCalories
  /\ Scenario =>
       /\ Len(results) = 2
       /\ results[1].notionPageId = pageIds[2]
       /\ results[2].notionPageId = pageIds[3]

C6_Witness ==
  /\ Scenario
  /\ Len(results) = 2
  /\ CarriesFallback(results[1])
  /\ results[2].calories.totalCalories = Num(4500)
  /\ results[2].nutritionalCategories["vegetables"] =
       [present |-> TRUE, portion |-> "alta", confidence |-> Num(9)]

(* the failures C7 names: prompt construction, the model call, an empty    *)
(* response, a response that does not parse or lacks a top-level key        *)
AnalysisFails(arg) ==
  \/ ~arg.env.templateLoaded
  \/ arg.env.response.kind \in {"throw", "empty", "nojson", "badjson"}
  \/ /\ arg.env.response.kind = "json"
     /\ \/ arg.env.response.data.calories.kind = "undefined"
        \/ arg.env.response.data.nutritionalCategories.kind = "undefined"
        \/ arg.env.response.data.analysisNotes = Undef

(* C7: analyzeImagesNutrition never throws, and on each of these failures  *)
(* it returns exactly the documented fallback.                              *)
C7_NeverThrowsFallback ==
  (call.op = "analyzeImagesNutrition" /\ call.done) =>
     /\ call.outcome.kind = "value"
     /\ AnalysisFails(call.arg) => call.outcome.value = DocumentedFallback

C7_Witness ==
  /\ call.op = "analyzeImagesNutrition" /\ call.done
  /\ call.arg.env.templateLoaded
  /\ call.arg.env.response.kind = "badjson"
  /\ call.outcome = Returned(DocumentedFallback)

(* C8: for every category payload validateCategoryInfo returns, without    *)
(* throwing, a boolean present, a portion among alta, media, baja and a     *)
(* confidence in [0,1].                                                     *)
C8_CategoryCoercionTotal ==
  (call.op = "validateCategoryInfo" /\ call.done) =>
     /\ call.outcome.kind = "value"
     /\ call.outcome.value.present \in BOOLEAN
     /\ call.outcome.value.portion \in Portions
     /\ call.outcome.value.confidence.t = "number"
     /\ call.outcome.value.confidence.n >= 0
     /\ call.outcome.value.confidence.n <= 10

C8_Witness ==
  /\ call.op = "validateCategoryInfo" /\ call.done
  /\ call.arg.kind = "undefined"
  /\ call.outcome = Returned([present |-> FALSE, portion |-> "baja", confidence |-> Num(5)])

(* C9: when save throws for record j, execute does not throw, j has no     *)
(* entry and no write-back, and the records after j are processed.          *)
C9_SaveFailureIsolated ==
  \A j \in Pages :
    errAt[j] = "PERSIST" =>
      /\ pc # "thrown"
      /\ status[j] = "SKIP_ERROR"
      /\ EntriesFor(j) = {}
      /\ WriteBacksFor(j) = {}
      /\ pc = "returned" => \A p \in Discovered : status[p] \in TerminalStates

C9_Witness ==
  /\ pc = "returned"
  /\ \E j, p \in Discovered :
       /\ errAt[j] = "PERSIST"
       /\ PositionOf(j) < PositionOf(p)
       /\ status[p] = "DONE"
       /\ WriteBacksFor(p) # {}

(* C10: the ids of the returned entries are a subsequence of the           *)
(* discovered ids, with one entry for each record that ended in DONE or     *)
(* SKIP_EXISTING and none for a record that errored or had no images.       *)
C10_ResultsInDiscoveryOrder ==
  /\ \A k \in 1 .. Len(results) : results[k].notionPageId \in Discovered
  /\ \A k, l \in 1 .. Len(results) :
       k < l => PositionOf(results[k].notionPageId) < PositionOf(results[l].notionPageId)
  /\ \A p \in Discovered :
       /\ status[p] \in {"DONE", "SKIP_EXISTING"} => Cardinality(EntriesFor(p)) = 1
       /\ status[p] \in {"SKIP_ERROR", "SKIP_NO_IMAGES"} => EntriesFor(p) = {}

C10_Witness ==
  /\ pc = "returned"
  /\ \E e, x, d \in Discovered :
       /\ status[e] = "SKIP_ERROR"
       /\ status[x] = "SKIP_EXISTING"
       /\ status[d] = "DONE"
  /\ Len(results) = 2

(* C11: a call with an explicit pageId never queries the pending ids and    *)
(* processes that one record only, so that it returns at most one entry; a  *)
(* call without a pageId queries the pending ids once with its limit,       *)
(* gets at most limit ids, and processes exactly the ids it got: no other   *)
(* record is touched, and every one of them is finished when it returns.    *)
Touched == {p \in Pages : status[p] # "NONE"}
Finished == {p \in Pages : status[p] \in TerminalStates}
IdsOf(list) == {list[k] : k \in 1 .. Len(list)}

C11_Discovery ==
  pc \in {"check", "extract", "analyze", "persist", "writeback", "returned"} =>
    /\ request.pageId # NoPage =>
          /\ pendingQueries = << >>
          /\ pageIds = << request.pageId >>
          /\ Touched = {request.pageId}
          /\ Len(results) <= 1
    /\ request.pageId = NoPage =>
          /\ Len(pendingQueries) = 1
          /\ pendingQueries[1].limit = request.limit
          /\ pendingQueries[1].outcome.kind = "value"
          /\ pageIds = pendingQueries[1].outcome.value
          /\ Len(pageIds) <= request.limit
          /\ Touched = IdsOf(pendingQueries[1].outcome.value)
    /\ pc = "returned" => Finished = Touched

C11_Witness ==
  /\ pc = "returned"
  /\ request.pageId = NoPage
  /\ Len(pendingQueries) = 1
  /\ Len(pageIds) = 2
  /\ Finished = IdsOf(pageIds)
  /\ Len(results) = 2

(* C12: the lookups and queries of the store (findById, findByNotionPageId, *)
(* findByDateRange, findAll) never throw, and a failure inside save is      *)
(* rethrown to the caller.                                                  *)
C12_ReadBestEffortWriteRethrows ==
  /\ call.op \in {"findById", "findByNotionPageId", "findByDateRange", "findAll"} =>
        call.outcome.kind = "value"
  /\ (call.op = "save" /\ saveBody(call.arg).kind = "throw") => call.outcome.kind = "throw"

(* C13: after save(a) returned, findById(a.id) is an entity equal to a in   *)
(* every field, and findByNotionPageId(a.notionPageId) is that entity when  *)
(* a has a notionPageId.                                                    *)
C13_StoreRoundTrip ==
  (call.op = "save" /\ call.outcome.kind = "value") =>
    /\ findById(call.arg.id) = call.arg
    /\ call.arg.notionPageId # NoPage => findByNotionPageId(call.arg.notionPageId) = call.arg

(* C14: for two dates start and end, findByDateRange(start, end) returns    *)
(* the stored results whose reference date d has start <= d <= end, each    *)
(* once and no other, where d is the capture time of the stored result when *)
(* it has one and its creation time otherwise.                              *)
ReferenceTime(id) ==
  IF inMemoryStore[id].extractedDateTime.t # "null"
    THEN inMemoryStore[id].extractedDateTime.ms
    ELSE inMemoryStore[id].createdAt.ms

C14_DateRangeInclusive ==
  (call.op = "findByDateRange" /\ call.arg.startDate.t = "date" /\ call.arg.endDate.t = "date") =>
    /\ call.outcome.kind = "value"
    /\ LET found == call.outcome.value
           wanted == {id \in DOMAIN inMemoryStore :
                        /\ call.arg.startDate.ms <= ReferenceTime(id)
                        /\ ReferenceTime(id) <= call.arg.endDate.ms}
       IN /\ {found[k].id : k \in 1 .. Len(found)} = wanted
          /\ Len(found) = Cardinality(wanted)
          /\ \A k \in 1 .. Len(found) : found[k] = mapToEntity(inMemoryStore[found[k].id])

C14_Witness ==
  /\ call.op = "findByDateRange"
  /\ call.arg.startDate = DateOf(2) /\ call.arg.endDate = DateOf(2)
  /\ call.outcome.kind = "value"
  /\ Len(call.outcome.value) = 1
  /\ Cardinality(DOMAIN inMemoryStore) = 2
  /\ \E id \in DOMAIN inMemoryStore :
        /\ inMemoryStore[id].extractedDateTime.t # "null"
        /\ inMemoryStore[id].extractedDateTime.ms = 2
        /\ inMemoryStore[id].createdAt.ms = 1
        /\ call.outcome.value[1].id = id
  /\ \E id \in DOMAIN inMemoryStore :
        /\ inMemoryStore[id].extractedDateTime.t = "null"
        /\ inMemoryStore[id].createdAt.ms = 1

UpdateCall == call.op = "updatePageWithNutritionAnalysis" /\ call.done
NamePairs == {<<"Calories", "Calorias">>, <<"Analysis Notes", "Notas">>, <<"Analyzed", "Analizado">>}

(* C15: every name in an update payload of updatePageWithNutritionAnalysis  *)
(* is a property of the fetched record; of each pair (Calories/Calorias,    *)
(* Analysis Notes/Notas, Analyzed/Analizado) exactly one name is written    *)
(* when the record has one of the two, the primary name when it has both,   *)
(* and none when it has neither.                                            *)
C15_NeverCreatesField ==
  UpdateCall =>
    \A k \in 1 .. Len(call.outcome.sent) :
      LET props == call.outcome.sent[k]
          properties == call.arg.env.properties
      IN /\ DOMAIN props \subseteq properties
         /\ \A pair \in NamePairs :
              LET written == DOMAIN props \cap {pair[1], pair[2]}
              IN IF {pair[1], pair[2]} \cap properties = {} THEN written = {}
                 ELSE /\ Cardinality(written) = 1
                      /\ pair[1] \in properties => written = {pair[1]}

C15_Witness ==
  /\ UpdateCall
  /\ call.arg.env.properties = {"Calories", "Calorias", "Notas", UserFieldName}
  /\ Len(call.outcome.sent) = 1
  /\ DOMAIN call.outcome.sent[1] = {"Calories", "Notas"}

(* C16: when the record is fetched and the update, if any, is accepted,     *)
(* updatePageWithNutritionAnalysis returns true whichever of the fields the *)
(* record lacks: the payload has the fields the record has and none it      *)
(* lacks, and no update is requested when the record has none of them.      *)
C16_SchemaAwareWriteBack ==
  (/\ UpdateCall
   /\ call.arg.env.retrieve = "ok" /\ call.arg.env.update = "ok"
   /\ call.arg.data.extractedDateTime.t # "invalid") =>
    LET properties == call.arg.env.properties
        sent == call.outcome.sent
    IN /\ call.outcome.outcome = Returned(TRUE)
       /\ IF properties \cap CandidateNames = {} THEN sent = << >>
          ELSE /\ Len(sent) = 1
               /\ DOMAIN sent[1] \cap (PropertyNames \ properties) = {}
               /\ \A name \in {"Hora comida", "Elementos", "Analisis alimentario"} :
                    name \in properties => name \in DOMAIN sent[1]
               /\ \A pair \in NamePairs :
                    {pair[1], pair[2]} \cap properties # {} =>
                      {pair[1], pair[2]} \cap DOMAIN sent[1] # {}

C16_Witness ==
  /\ UpdateCall
  /\ call.arg.env.retrieve = "ok" /\ call.arg.env.update = "ok"
  /\ call.arg.env.properties = {"Hora comida", "Calorias", "Elementos"}
  /\ call.outcome.outcome = Returned(TRUE)
  /\ Len(call.outcome.sent) = 1
  /\ DOMAIN call.outcome.sent[1] = {"Hora comida", "Calorias", "Elementos"}

(* C17: updatePageWithNutritionAnalysis never throws; it returns false when *)
(* fetching the record or sending the update fails.                         *)
C17_WriteBackNeverThrows ==
  UpdateCall =>
    /\ call.outcome.outcome.kind = "value"
    /\ call.arg.env.retrieve = "throw" => call.outcome.outcome = Returned(FALSE)
    /\ (call.arg.env.update = "throw" /\ call.outcome.sent # << >>) =>
          call.outcome.outcome = Returned(FALSE)

C17_Witness ==
  /\ UpdateCall
  /\ call.arg.env.retrieve = "ok" /\ call.arg.env.update = "throw"
  /\ Len(call.outcome.sent) = 1
  /\ call.outcome.outcome = Returned(FALSE)

(* the sources of a page in the order of the scan, and those with a url *)
SourcesInOrder(page) ==
  << [source |-> "Foto", k |-> 0, yields |-> page.foto = "url"] >>
    \o [k \in 1 .. Len(page.others) |->
          [source |-> "property", k |-> k, yields |-> page.others[k] = "url"]]
    \o [k \in 1 .. Len(page.blocks) |->
          [source |-> "block", k |-> k, yields |-> page.blocks[k] \in {"image", "fileImage"}]]
Yielding(page) == {k \in 1 .. Len(SourcesInOrder(page)) : SourcesInOrder(page)[k].yields}
Earliest(page) ==
  SourcesInOrder(page)[CHOOSE k \in Yielding(page) : \A j \in Yielding(page) : k <= j]

(* C18: extractImageDataFromPage returns null exactly when the scan of the  *)
(* property 'Foto', then of the other properties of type files, then of the *)
(* image and file blocks of the page ends without an image url; when it     *)
(* returns data, the image is the one of the earliest source that has a url.*)
C18_ExtractorScanOrder ==
  (call.op = "extractImageDataFromPage" /\ call.done) =>
    LET page == call.arg.page
        scanned == page.list = "ok" \/ Yielding(page) # {}
    IN /\ call.outcome = Returned(Null) <=> (scanned /\ Yielding(page) = {})
       /\ (call.outcome.kind = "value" /\ call.outcome.value # Null) =>
            /\ Yielding(page) # {}
            /\ call.outcome.value.imageUrl = UrlOf(Earliest(page).source, Earliest(page).k)
       /\ (Yielding(page) # {} /\ call.arg.env.fetch = "ok") =>
            (call.outcome.kind = "value" /\ call.outcome.value # Null)

C18_Witness ==
  /\ call.op = "extractImageDataFromPage" /\ call.done
  /\ call.arg.page.foto = "noUrl"
  /\ call.arg.page.others = << "empty", "url" >>
  /\ call.arg.page.blocks = << "image", "fileImage" >>
  /\ call.outcome.kind = "value"
  /\ call.outcome.value # Null
  /\ call.outcome.value.imageUrl = UrlOf("property", 2)

(* C19: when retrieving the record throws, the extractor (getImageFromPage) *)
(* throws to its caller; it does not return null.                           *)
C19_FetchFailurePropagates ==
  (call.op = "getImageFromPage" /\ call.done /\ call.arg.env.retrieve = "throw") =>
    call.outcome.kind = "throw"

RequiredNames == {RequiredVars[k] : k \in 1 .. Len(RequiredVars)}
MissingIn(environment) == {name \in RequiredNames : environment[name] \in {"unset", "empty"}}
NamesOf(list) == {list[k] : k \in 1 .. Len(list)}

(* C20: loadConfig throws exactly when one of NOTION_API_KEY,               *)
(* NOTION_DATABASE_ID, OPENAI_API_KEY is unset or empty, and its message    *)
(* names each missing variable once and no other; a run of the script with  *)
(* such an environment ends with exit code 1 and never calls execute.       *)
C20_ConfigFailureIsFatal ==
  /\ (call.op = "loadConfig" /\ call.done) =>
        /\ call.outcome.kind = "throw" <=> MissingIn(call.arg) # {}
        /\ call.outcome.kind = "throw" =>
              /\ NamesOf(call.outcome.message) = MissingIn(call.arg)
              /\ Len(call.outcome.message) = Cardinality(MissingIn(call.arg))
  /\ (call.op = "main" /\ MissingIn(call.arg.environment) # {}) =>
        /\ call.outcome.executeCalls = 0
        /\ call.outcome.step \in {"start", "exited"}
        /\ call.outcome.step = "exited" => call.outcome.exitCode = 1

C20_Witness ==
  /\ call.op = "main"
  /\ call.arg.environment["NOTION_API_KEY"] = "set"
  /\ call.arg.environment["NOTION_DATABASE_ID"] = "empty"
  /\ call.arg.environment["OPENAI_API_KEY"] = "unset"
  /\ call.outcome.step = "exited"
  /\ call.outcome.exitCode = 1
  /\ call.outcome.executeCalls = 0

AnalyzerCall == call.op = "analyzeImagesNutrition" /\ call.done

(* C21: every result analyzeImagesNutrition returns, parsed or fallback,    *)
(* has calories.totalCalories >= 0 and calories.confidence in [0,1].        *)
C21_CaloriesNonNegative ==
  AnalyzerCall =>
    /\ call.outcome.kind = "value"
    /\ LET total == call.outcome.value.calories.totalCalories
           confidence == call.outcome.value.calories.confidence
       IN /\ total = PosInf \/ (total.t = "number" /\ total.n >= 0)
          /\ confidence.t = "number" /\ confidence.n >= 0 /\ confidence.n <= 10

(* C22: the existence check of a call of execute reads the store alone: it *)
(* goes on to fetch and analyze a record that has no stored result even    *)
(* while another call of execute is between its own check and its save of  *)
(* that record, so that, when two calls overlap on one record, the model    *)
(* is invoked twice for it and two stored results carry its notionPageId.   *)
C22_CheckThenSaveNotAtomic ==
  [][\A i \in Invocations :
       (execution(i).pc = "check" /\ call'.executions[i].pc # "check"
          /\ StoredFor(execution(i).pageId) = {})
         => call'.executions[i].pc = "extract"]_vars

C22_Witness ==
  /\ call.op = "overlap"
  /\ \A i \in {1, 2} : execution(i).pageId = 1 /\ execution(i).pc = "returned"
                         /\ Len(execution(i).results) = 1
  /\ execution(1).results[1].id # execution(2).results[1].id
  /\ analyzerCalls[1] = 2
  /\ Cardinality(StoredFor(1)) = 2

(* the steps of one record: from PENDING the existence check ends it or    *)
(* leads to the extraction, and so on to DONE, with SKIP_ERROR from every   *)
(* step after the check                                                     *)
RecordTransitions ==
  { <<"PENDING", "SKIP_EXISTING">>, <<"PENDING", "EXTRACT">>,
    <<"EXTRACT", "SKIP_NO_IMAGES">>, <<"EXTRACT", "ANALYZE">>, <<"EXTRACT", "SKIP_ERROR">>,
    <<"ANALYZE", "PERSIST">>, <<"ANALYZE", "SKIP_ERROR">>,
    <<"PERSIST", "WRITE_BACK">>, <<"PERSIST", "SKIP_ERROR">>,
    <<"WRITE_BACK", "DONE">>, <<"WRITE_BACK", "SKIP_ERROR">> }

(* C23: within one call of execute a record changes state only while the   *)
(* loop is at it and only along PENDING -> SKIP_EXISTING | EXTRACT ->        *)
(* SKIP_NO_IMAGES | ANALYZE -> PERSIST -> WRITE_BACK -> DONE, or to          *)
(* SKIP_ERROR from EXTRACT, ANALYZE, PERSIST or WRITE_BACK; the model is     *)
(* called only for a record without stored result whose extraction gave an  *)
(* image, save only after the model call, the write-back only after the     *)
(* save; a record with an exception ends in SKIP_ERROR without an entry in  *)
(* the results, and when execute returns every discovered record is in a    *)
(* terminal state.                                                          *)
C23_RecordStateMachine ==
  [][ /\ runs' = runs =>
           /\ \A p \in Pages :
                 status'[p] # status[p] =>
                    /\ p = pageId
                    /\ <<status[p], status'[p]>> \in RecordTransitions
           /\ \A p \in Pages :
                 analyzerCallsRun'[p] > analyzerCallsRun[p] =>
                    /\ status[p] = "ANALYZE"
                    /\ findByNotionPageId(p) = Null
                    /\ bundles[p] # Null /\ Len(bundles[p].images) >= 1
           /\ <<inMemoryStore, pageIdIndex>>' # <<inMemoryStore, pageIdIndex>> =>
                 /\ status[pageId] = "PERSIST"
                 /\ analyzerCallsRun[pageId] >= 1
           /\ writeBacks' # writeBacks =>
                 /\ status[pageId] = "WRITE_BACK"
                 /\ findById(nutritionAnalysis.id) # Null
      /\ \A p \in Pages :
            errAt'[p] # "none" =>
               /\ status'[p] = "SKIP_ERROR"
               /\ \A k \in 1 .. Len(results') : results'[k].notionPageId # p
      /\ pc' = "returned" =>
            \A k \in 1 .. Len(pageIds') : status'[pageIds'[k]] \in TerminalStates
    ]_vars

C23_Witness ==
  /\ pc = "returned"
  /\ Len(pageIds) = 3
  /\ \E p, q, r \in Pages :
        /\ status[p] = "SKIP_EXISTING"
        /\ status[q] = "DONE"
        /\ status[r] = "SKIP_ERROR" /\ errAt[r] = "WRITE_BACK"

(* C24: every entry of the list execute returns belongs to a record whose  *)
(* result existed already or whose write-back succeeded in this call; a     *)
(* record whose write-back failed has no entry.                             *)
C24_ReturnedEntriesCompleted ==
  pc = "returned" =>
    \A k \in 1 .. Len(results) :
      LET p == results[k].notionPageId
      IN \/ status[p] = "SKIP_EXISTING"
         \/ \E w \in WriteBacksFor(p) : writeBacks[w].returned = "true"

(* C25: within one call of execute the records are processed one after    *)
(* the other in the order of the discovered list: every record before the   *)
(* one the loop is at is in a terminal state, and for every record after it *)
(* no step has started (it is PENDING, without extraction, model call or    *)
(* write-back).                                                             *)
C25_StrictlySequential ==
  \A k \in 1 .. Len(pageIds) :
    /\ k < idx => status[pageIds[k]] \in TerminalStates
    /\ k > idx =>
         /\ status[pageIds[k]] = "PENDING"
         /\ bundles[pageIds[k]] = Null
         /\ analyzerCallsRun[pageIds[k]] = 0
         /\ WriteBacksFor(pageIds[k]) = {}
         /\ EntriesFor(pageIds[k]) = {}

C25_Witness ==
  /\ Len(pageIds) = 3
  /\ idx = 2
  /\ pc = "persist"
  /\ status[pageIds[1]] = "DONE"
  /\ status[pageIds[2]] = "PERSIST"
  /\ status[pageIds[3]] = "PENDING"

(* min(1, max(0, c)) of a number c, in tenths *)
ClampOf(c) == IF c.n > 10 THEN Num(10) ELSE IF c.n < 0 THEN Num(0) ELSE c

(* C26: for every numeric confidence c of a model response, of a category  *)
(* or of the calories, the coerced confidence is min(1, max(0, c)): a c in  *)
(* [0,1], 0 included, is returned unchanged.                                *)
C26_ConfidenceIsClamp ==
  /\ (call.op = "validateCategoryInfo" /\ call.done /\ call.arg.kind = "object"
        /\ call.arg.confidence.t = "number") =>
        call.outcome.value.confidence = ClampOf(call.arg.confidence)
  /\ (AnalyzerCall /\ call.arg.env.templateLoaded /\ call.arg.env.response.kind = "json"
        /\ call.outcome.value # getFallbackAnalysis
        /\ call.arg.env.response.data.calories.kind = "object"
        /\ call.arg.env.response.data.calories.confidence.t = "number") =>
        call.outcome.value.calories.confidence =
          ClampOf(call.arg.env.response.data.calories.confidence)

(* the top-level keys of a parsed response that do not exist *)
MissingKeys(data) ==
  {k \in {"calories", "nutritionalCategories"} : data[k].kind = "undefined"}
    \cup (IF data.analysisNotes = Undef THEN {"analysisNotes"} ELSE {})

(* C27: a response with a JSON object is a parse failure, answered with the *)
(* fallback, exactly when one of the keys calories, nutritionalCategories,  *)
(* analysisNotes does not exist in the object; when the three keys exist,   *)
(* whatever their values, the response is parsed and coerced.               *)
C27_ParseFailureIffKeyMissing ==
  (AnalyzerCall /\ call.arg.env.templateLoaded /\ call.arg.env.response.kind = "json") =>
    (parseBody(call.arg.env.response).kind = "throw"
       <=> MissingKeys(call.arg.env.response.data) # {})

(* the four tags in the order the claim names them *)
ClaimedExifOrder == << "DateTimeOriginal", "CreateDate", "DateTimeDigitized", "DateTime" >>
UsableExif(exif) ==
  exif.parse = "object" /\ \A tag \in ExifTags : exif.data[tag].t \in {"null", "date"}

(* C28: extractImageCreationDate never throws; the capture time is the      *)
(* first present tag in the order DateTimeOriginal, CreateDate,             *)
(* DateTimeDigitized, DateTime, and null when no tag is present or the      *)
(* parsing of the metadata throws.                                          *)
C28_CaptureTimePrecedence ==
  (call.op = "extractImageCreationDate" /\ call.done) =>
    /\ call.outcome.kind = "value"
    /\ call.arg.parse # "object" => call.outcome.value = NullDate
    /\ UsableExif(call.arg) =>
         call.outcome.value = firstTruthy(call.arg.data, ClaimedExifOrder)

(* the reserved fields: the photo, the meal time, and the fields of the    *)
(* calories, the nutrients, the notes and the analyzed flag                 *)
ReservedNames == {"Foto"} \cup CandidateNames \cup {"Nutrients"}
ValueTypes == {"rich_text", "title", "number", "select", "multi_select"}

(* the pairs as the claim describes them: one per non-reserved field with a *)
(* present value, under the name of the field                               *)
RECURSIVE ClaimedPairs(_)
ClaimedPairs(properties) ==
  IF properties = << >> THEN << >>
  ELSE (IF /\ Head(properties).name \notin ReservedNames
           /\ Head(properties).type \in ValueTypes
           /\ Head(properties).value = "present"
          THEN << [label |-> Head(properties).name, valueOf |-> Head(properties).name] >>
          ELSE << >>)
       \o ClaimedPairs(Tail(properties))

(* C29: the context string of a record has no pair of a reserved field and *)
(* one pair 'FieldName: value', under the field's own name, for each other  *)
(* field with a present rich-text, title, number, select or multi-select    *)
(* value; the pairs are joined by '; ' and the string is empty without      *)
(* pairs.                                                                   *)
C29_ContextFromNonReservedFields ==
  (call.op = "extractAdditionalInfo" /\ call.done) =>
    LET text == call.outcome.value
        pairs == ClaimedPairs(call.arg)
    IN /\ Len(text) = IF pairs = << >> THEN 0 ELSE 2 * Len(pairs) - 1
       /\ \A k \in 1 .. Len(pairs) : text[2 * k - 1] = pairs[k]
       /\ \A k \in 1 .. Len(pairs) - 1 : text[2 * k] = [label |-> "; ", valueOf |-> ""]

(* C30: a write-back that returns true has set 'Hora comida' when the      *)
(* record has that field, to the extracted capture time when there is one   *)
(* and to the current time otherwise, and has not written it when the       *)
(* record lacks the field.                                                  *)
C30_MealTimeWriteBack ==
  (UpdateCall /\ call.outcome.outcome = Returned(TRUE)) =>
    LET captured == call.arg.data.extractedDateTime
        sent == call.outcome.sent
    IN IF "Hora comida" \in call.arg.env.properties
         THEN /\ Len(sent) = 1
              /\ "Hora comida" \in DOMAIN sent[1]
              /\ sent[1]["Hora comida"] =
                   [date |-> toISOString(IF captured.t = "null" THEN call.arg.env.now
                                         ELSE captured)]
         ELSE \A k \in 1 .. Len(sent) : "Hora comida" \notin DOMAIN sent[k]

C30_Witness ==
  /\ UpdateCall
  /\ call.arg.env.properties = {"Hora comida", "Notas"}
  /\ call.arg.data.extractedDateTime = CaptureTime
  /\ call.outcome.outcome = Returned(TRUE)
  /\ Len(call.outcome.sent) = 1
  /\ call.outcome.sent[1]["Hora comida"] = [date |-> toISOString(CaptureTime)]

(* C31: the update payload built by updatePageWithNutritionAnalysis never   *)
(* has the field of the user's own text ('Informacion adicional'), nor any  *)
(* field outside the candidate set, whatever the record's fields and the    *)
(* analysis are.                                                            *)
C31_UserFieldNeverWritten ==
  UpdateCall =>
    \A k \in 1 .. Len(call.outcome.sent) :
      /\ UserFieldName \notin DOMAIN call.outcome.sent[k]
      /\ DOMAIN call.outcome.sent[k] \subseteq CandidateNames

C31_Witness ==
  /\ UpdateCall
  /\ UserFieldName \in call.arg.env.properties
  /\ call.arg.env.properties \cap CandidateNames # {}
  /\ Len(call.outcome.sent) = 1
  /\ DOMAIN call.outcome.sent[1] = call.arg.env.properties \ {UserFieldName}
  /\ call.outcome.outcome = Returned(TRUE)

PromptCall == call.op = "prompt" /\ call.done
IsPrefix(piece) == piece.kind = "multipleImages"

(* C32: the statement that all images are parts of the same meal is at the  *)
(* head of the prompt if and only if the bundle has more than one image,    *)
(* and names the number of images; what follows it is the prompt a bundle   *)
(* of one image gets for the same capture time and user's text, which has   *)
(* no such statement.                                                       *)
C32_PromptVariantByImageCount ==
  (PromptCall /\ call.outcome.kind = "value") =>
    LET text == call.outcome.value
        rest == IF call.arg.nImages > 1 THEN Tail(text) ELSE text
        body == replace(replace(call.arg.template, "{{timeContext}}",
                                timeContext(call.arg.extractedDateTime)),
                        "{{infoContext}}", infoContext(call.arg.additionalInfo))
    IN /\ Len(text) > 0
       /\ IsPrefix(Head(text)) <=> call.arg.nImages > 1
       /\ IsPrefix(Head(text)) => Head(text).n = call.arg.nImages
       /\ \A k \in 1 .. Len(rest) : ~IsPrefix(rest[k])
       /\ rest = body

C32_Witness ==
  /\ PromptCall
  /\ call.arg.nImages = 2
  /\ call.arg.additionalInfo = "sin gluten"
  /\ call.outcome.kind = "value"
  /\ IsPrefix(Head(call.outcome.value))
  /\ Len(call.outcome.value) = 5

(* C33: after any sequence of save calls every entry of pageIdIndex names   *)
(* an id that is a key of inMemoryStore, and the record stored under that   *)
(* id has the entry's page as its notionPageId.                             *)
C33_IndexConsistent ==
  \A page \in DOMAIN pageIdIndex :
    /\ pageIdIndex[page] \in DOMAIN inMemoryStore
    /\ inMemoryStore[pageIdIndex[page]].notionPageId = page

IdsIn(list) == {list[k].id : k \in 1 .. Len(list)}

(* C34: save is an upsert without a uniqueness check on notionPageId.  Of   *)
(* two saves in a row that both succeed: when they save the same entity,    *)
(* the second leaves both maps as the first left them; when they save       *)
(* entities with different ids and the same notionPageId, both records are  *)
(* in the store afterwards, findAll returns both, and findByNotionPageId    *)
(* returns the one saved last.                                              *)
C34_SaveIsUpsert ==
  Len(call.saved) >= 2 =>
    LET first == call.saved[Len(call.saved) - 1]
        last == call.saved[Len(call.saved)]
    IN /\ first = last =>
            /\ inMemoryStore = call.before.inMemoryStore
            /\ pageIdIndex = call.before.pageIdIndex
       /\ (/\ first.id # last.id
           /\ first.notionPageId = last.notionPageId
           /\ last.notionPageId # NoPage) =>
            /\ {first.id, last.id} \subseteq DOMAIN inMemoryStore
            /\ inMemoryStore[first.id] = call.before.inMemoryStore[first.id]
            /\ {first.id, last.id} \subseteq
                  IdsIn(findAll(0, Cardinality(DOMAIN inMemoryStore)).value)
            /\ findByNotionPageId(last.notionPageId) # Null
            /\ findByNotionPageId(last.notionPageId).id = last.id

C34_Witness ==
  /\ Len(call.saved) = 2
  /\ call.saved[1].id # call.saved[2].id
  /\ call.saved[2].notionPageId # NoPage
  /\ Cardinality(StoredFor(call.saved[2].notionPageId)) = 2
  /\ pageIdIndex[call.saved[2].notionPageId] = call.saved[2].id
  /\ inMemoryStore[call.saved[2].id].mapPosition = 2
  /\ Len(findAll(0, 2).value) = 2

(* C35: a record for which the existence check found a result gets no       *)
(* extraction, no model call, no save and no write-back in that call of     *)
(* execute; so a record that was saved in an earlier call and whose         *)
(* write-back failed is skipped as existing, and not written back, by every *)
(* later call.                                                              *)
C35_ExistingRecordUntouched ==
  \A p \in Pages :
    /\ status[p] = "SKIP_EXISTING" =>
         /\ bundles[p] = Null
         /\ analyzerCallsRun[p] = 0
         /\ RequestsFor(p) = {}
         /\ WriteBacksFor(p) = {}
         /\ errAt[p] = "none"
         /\ \A id \in StoredFor(p) : inMemoryStore[id].createdAt.ms < clock
    /\ (/\ p \in writeBackFailures
        /\ persisted[p] # Null
        /\ persisted[p].createdAt.ms < clock) =>
         /\ status[p] \in {"NONE", "PENDING", "SKIP_EXISTING"}
         /\ WriteBacksFor(p) = {}

C35_Witness ==
  /\ runs = 2
  /\ pc = "returned"
  /\ \E p \in Pages :
       /\ p \in writeBackFailures
       /\ persisted[p] # Null
       /\ persisted[p].createdAt.ms < clock
       /\ status[p] = "SKIP_EXISTING"
       /\ EntriesFor(p) # {}
       /\ \A k \in EntriesFor(p) : results[k].id = persisted[p].id

ReturnedIds == {results[k].id : k \in 1 .. Len(results)}
StoredThisRun == {id \in DOMAIN inMemoryStore : inMemoryStore[id].createdAt.ms = clock}

(* C36: when execute returns, every entry of the list is a stored result,   *)
(* stored under the entry's id for the discovered record the entry names;   *)
(* and a result stored during this call is missing from the list exactly    *)
(* when the write-back of its record threw.                                 *)
C36_ReturnedAreStored ==
  pc = "returned" =>
    /\ \A k \in 1 .. Len(results) :
         /\ results[k].id \in DOMAIN inMemoryStore
         /\ inMemoryStore[results[k].id].notionPageId = results[k].notionPageId
         /\ results[k].notionPageId \in Discovered
         /\ results[k].id.page = results[k].notionPageId
    /\ \A id \in StoredThisRun :
         id \notin ReturnedIds <=> errAt[inMemoryStore[id].notionPageId] = "WRITE_BACK"

C36_Witness ==
  /\ pc = "returned"
  /\ \E id \in StoredThisRun : id \in ReturnedIds
  /\ \E id \in StoredThisRun :
       /\ id \notin ReturnedIds
       /\ errAt[inMemoryStore[id].notionPageId] = "WRITE_BACK"

UpdateDataCall == call.op = "updateData" /\ call.done
ClaimedCategoryOrder == << "vegetables", "fruits", "proteins", "sugars", "processedFoods" >>
ClaimedLabel(c) ==
  CASE c = "vegetables" -> "Verduras" [] c = "fruits" -> "Frutas" [] c = "proteins" -> "Proteinas"
    [] c = "sugars" -> "Azucares" [] c = "processedFoods" -> "Procesados"
PresentRanks(categories) ==
  {k \in 1 .. Len(ClaimedCategoryOrder) : categories[ClaimedCategoryOrder[k]].present}

(* C37: the labels execute hands to the write-back are those of the         *)
(* categories whose present flag is true, in the order vegetables, fruits,  *)
(* proteins, sugars, processedFoods, each with the portion of its category; *)
(* when no category is present the list is the one placeholder label.  The  *)
(* list has between 1 and 5 entries.                                        *)
C37_CategoryLabels ==
  UpdateDataCall =>
    LET categories == call.arg.nutritionalCategories
        nutrients == call.outcome.value.nutrients
        ranks == PresentRanks(categories)
    IN /\ Len(nutrients) >= 1 /\ Len(nutrients) <= 5
       /\ IF ranks = {}
            THEN nutrients = << [label |-> "Sin categorias identificadas", portion |-> ""] >>
            ELSE /\ Len(nutrients) = Cardinality(ranks)
                 /\ \A k \in 1 .. Len(nutrients) :
                      \E r \in ranks :
                        /\ Cardinality({x \in ranks : x < r}) = k - 1
                        /\ nutrients[k].label = ClaimedLabel(ClaimedCategoryOrder[r])
                        /\ nutrients[k].portion = categories[ClaimedCategoryOrder[r]].portion

C37_Witness ==
  /\ UpdateDataCall
  /\ PresentRanks(call.arg.nutritionalCategories) = {2, 4, 5}
  /\ call.arg.nutritionalCategories["sugars"].portion = "alta"
  /\ call.outcome.value.nutrients =
       << [label |-> "Frutas", portion |-> call.arg.nutritionalCategories["fruits"].portion],
          [label |-> "Azucares", portion |-> "alta"],
          [label |-> "Procesados", portion |-> call.arg.nutritionalCategories["processedFoods"].portion] >>

(* the notes execute is to build from the analyzer's notes for n images;    *)
(* combined = 0 stands for the analyzer's notes as they are                 *)
ClaimedNotes(n, notes) == [combined |-> IF n = 1 THEN 0 ELSE n, text |-> notes]

NothingDone ==
  /\ \A p \in Pages : status[p] = "NONE" /\ analyzerCallsRun[p] = 0 /\ bundles[p] = Null
  /\ requestsRun = << >>
  /\ writeBacks = << >>
  /\ StoredThisRun = {}

(* C39: when the query of the pending records throws, execute rethrows and  *)
(* has made no existence check, extraction, model call, save or write-back; *)
(* when the query yields no id, execute returns the empty list, with no     *)
(* such step either.                                                        *)
C39_DiscoveryOutcomes ==
  Len(pendingQueries) = 1 =>
    /\ pendingQueries[1].outcome.kind = "throw" =>
         pc = "thrown" /\ results = << >> /\ NothingDone
    /\ (pendingQueries[1].outcome.kind = "value" /\ pendingQueries[1].outcome.value = << >>) =>
         pc = "returned" /\ results = << >> /\ NothingDone

C39_Witness ==
  /\ runs = 2
  /\ Len(pendingQueries) = 1
  /\ pendingQueries[1].outcome.kind = "throw"
  /\ pc = "thrown"
  /\ DOMAIN inMemoryStore # {}
  /\ DOMAIN pageIdIndex # {}

Running == pc \in {"check", "extract", "analyze", "persist", "writeback"}

(* C40: when every collaborator call eventually returns or throws, a call   *)
(* of execute that entered its loop eventually returns; when it has         *)
(* returned every discovered record is in a terminal state (SKIP_EXISTING,  *)
(* SKIP_NO_IMAGES, SKIP_ERROR, DONE), with at most one analyzer call and    *)
(* one write-back; during a call the loop never goes back in the list and a *)
(* record that reached a terminal state keeps it.                           *)
C40_Termination ==
  /\ Running ~> (pc = "returned")
  /\ [](pc = "returned" =>
         \A p \in Discovered :
           /\ status[p] \in TerminalStates
           /\ analyzerCallsRun[p] <= 1
           /\ Cardinality(WriteBacksFor(p)) <= 1)
  /\ [][ runs' = runs =>
           /\ idx' >= idx
           /\ pageIds' = pageIds
           /\ \A p \in Pages : status[p] \in TerminalStates => status'[p] = status[p] ]_vars

C40_Witness ==
  /\ pc = "returned"
  /\ runs = 2
  /\ Len(pageIds) = MaxPages
  /\ \A p \in Discovered : status[p] \in TerminalStates
  /\ \E p, q, r \in Discovered :
       status[p] = "SKIP_EXISTING" /\ status[q] = "DONE" /\ status[r] = "SKIP_ERROR"

====
